---------------------------- MODULE Spec2Model ----------------------------
(***************************************************************************)
(* Batch geocoding (jy0506kr/DH_geocoding): src/geocoding.py and its        *)
(* variant src/.ipynb_checkpoints/geocoding-checkpoint.py.                  *)
(*                                                                         *)
(* A table of rows is dispatched on a ThreadPoolExecutor, one process_row   *)
(* task per row; each task resolves the row's address with the two-tier     *)
(* lookup geocoding_latlong (PARCEL, then ROAD); the submitting thread      *)
(* collects the futures with as_completed, adds TMX/TMY and appends to      *)
(* results, from which the result table is built.                           *)
(*                                                                         *)
(* Python values are tagged records.  Strings are sequences of characters   *)
(* so that str.strip() and float() are computed, not assumed.               *)
(***************************************************************************)
EXTENDS Integers, Sequences, FiniteSets, TLC

-----------------------------------------------------------------------------
(* Bounds of the model *)

\* Largest number of rows of an input table of the batch specification.
MaxRows == 2

-----------------------------------------------------------------------------
(* Python values *)

Str(s) == [t |-> "str", s |-> s]
\* A float other than nan, inf and -0.0: the double whose repr is the decimal
\* m * 10^-e, m without trailing zeros (Normalize).
Float(m, e) == [t |-> "float", m |-> m, e |-> e]
\* -0.0: float('-0'), and a negative number too small for a double.
NegZero == [t |-> "negzero"]
PyInt(n) == [t |-> "int", n |-> n]
PyBool(b) == [t |-> "bool", b |-> b]
Obj(o) == [t |-> "dict", o |-> o]
NaN == [t |-> "nan"]
\* float('inf') and float('-inf')
Inf(neg) == [t |-> "inf", neg |-> neg]
None == [t |-> "none"]

\* An f-string: a literal followed by the formatted arguments.
FStr(lit, args) == [t |-> "fstr", lit |-> lit, args |-> args]

\* The outcome of an expression: a value, or a raised exception.
Ok(v) == [ok |-> TRUE, v |-> v]
Raise(type, arg) == [ok |-> FALSE, exc |-> [type |-> type, arg |-> arg]]

EmptyDict == [k \in {} |-> None]

\* d.update(r) on dicts (functions from keys to values).
DictUpdate(d, r) ==
    [k \in (DOMAIN d) \cup (DOMAIN r) |-> IF k \in DOMAIN r THEN r[k] ELSE d[k]]

\* v[k] of Python: KeyError on a dict without the key, TypeError on a value
\* that is no dict (None, a string).
Subscript(v, k) ==
    IF v.t = "dict"
    THEN IF k \in DOMAIN v.o THEN Ok(v.o[k]) ELSE Raise("KeyError", k)
    ELSE Raise("TypeError", k)

\* r[k] where r is itself the outcome of an expression.
Sub(r, k) == IF r.ok THEN Subscript(r.v, k) ELSE r

\* A character is a one-character string; a character a TLA+ string cannot
\* hold is written by its code point ("U+000B").
\* str.isspace(): the characters str.strip() and float() strip.
Whitespace ==
    {" ", "\t", "\n", "\r", "\f", "U+000B", "U+001C", "U+001D", "U+001E", "U+001F",
     "U+0085", "U+00A0", "U+1680", "U+2000", "U+2001", "U+2002", "U+2003", "U+2004",
     "U+2005", "U+2006", "U+2007", "U+2008", "U+2009", "U+200A", "U+2028", "U+2029",
     "U+202F", "U+205F", "U+3000"}

\* The whitespace float() skips around a number: the same, except the four
\* separators U+001C to U+001F.
FloatWhitespace == Whitespace \ {"U+001C", "U+001D", "U+001E", "U+001F"}

RECURSIVE LStrip(_, _)
LStrip(s, ws) ==
    IF s # <<>> /\ Head(s) \in ws THEN LStrip(Tail(s), ws) ELSE s

RECURSIVE RStrip(_, _)
RStrip(s, ws) ==
    IF s # <<>> /\ s[Len(s)] \in ws
    THEN RStrip(SubSeq(s, 1, Len(s) - 1), ws)
    ELSE s

\* str.strip()
Strip(s) == RStrip(LStrip(s, Whitespace), Whitespace)

Digits == <<"0", "1", "2", "3", "4", "5", "6", "7", "8", "9">>

\* The decimal digits of Unicode (category Nd, Unicode 14 of CPython 3.11):
\* float() reads every one of them as the digit 0 to 9 it stands for.  Each
\* row is the digits 0 to 9 of one script.
DecimalDigits ==
    << Digits,
       <<"U+0660", "U+0661", "U+0662", "U+0663", "U+0664", "U+0665", "U+0666", "U+0667", "U+0668", "U+0669">>,
       <<"U+06F0", "U+06F1", "U+06F2", "U+06F3", "U+06F4", "U+06F5", "U+06F6", "U+06F7", "U+06F8", "U+06F9">>,
       <<"U+07C0", "U+07C1", "U+07C2", "U+07C3", "U+07C4", "U+07C5", "U+07C6", "U+07C7", "U+07C8", "U+07C9">>,
       <<"U+0966", "U+0967", "U+0968", "U+0969", "U+096A", "U+096B", "U+096C", "U+096D", "U+096E", "U+096F">>,
       <<"U+09E6", "U+09E7", "U+09E8", "U+09E9", "U+09EA", "U+09EB", "U+09EC", "U+09ED", "U+09EE", "U+09EF">>,
       <<"U+0A66", "U+0A67", "U+0A68", "U+0A69", "U+0A6A", "U+0A6B", "U+0A6C", "U+0A6D", "U+0A6E", "U+0A6F">>,
       <<"U+0AE6", "U+0AE7", "U+0AE8", "U+0AE9", "U+0AEA", "U+0AEB", "U+0AEC", "U+0AED", "U+0AEE", "U+0AEF">>,
       <<"U+0B66", "U+0B67", "U+0B68", "U+0B69", "U+0B6A", "U+0B6B", "U+0B6C", "U+0B6D", "U+0B6E", "U+0B6F">>,
       <<"U+0BE6", "U+0BE7", "U+0BE8", "U+0BE9", "U+0BEA", "U+0BEB", "U+0BEC", "U+0BED", "U+0BEE", "U+0BEF">>,
       <<"U+0C66", "U+0C67", "U+0C68", "U+0C69", "U+0C6A", "U+0C6B", "U+0C6C", "U+0C6D", "U+0C6E", "U+0C6F">>,
       <<"U+0CE6", "U+0CE7", "U+0CE8", "U+0CE9", "U+0CEA", "U+0CEB", "U+0CEC", "U+0CED", "U+0CEE", "U+0CEF">>,
       <<"U+0D66", "U+0D67", "U+0D68", "U+0D69", "U+0D6A", "U+0D6B", "U+0D6C", "U+0D6D", "U+0D6E", "U+0D6F">>,
       <<"U+0DE6", "U+0DE7", "U+0DE8", "U+0DE9", "U+0DEA", "U+0DEB", "U+0DEC", "U+0DED", "U+0DEE", "U+0DEF">>,
       <<"U+0E50", "U+0E51", "U+0E52", "U+0E53", "U+0E54", "U+0E55", "U+0E56", "U+0E57", "U+0E58", "U+0E59">>,
       <<"U+0ED0", "U+0ED1", "U+0ED2", "U+0ED3", "U+0ED4", "U+0ED5", "U+0ED6", "U+0ED7", "U+0ED8", "U+0ED9">>,
       <<"U+0F20", "U+0F21", "U+0F22", "U+0F23", "U+0F24", "U+0F25", "U+0F26", "U+0F27", "U+0F28", "U+0F29">>,
       <<"U+1040", "U+1041", "U+1042", "U+1043", "U+1044", "U+1045", "U+1046", "U+1047", "U+1048", "U+1049">>,
       <<"U+1090", "U+1091", "U+1092", "U+1093", "U+1094", "U+1095", "U+1096", "U+1097", "U+1098", "U+1099">>,
       <<"U+17E0", "U+17E1", "U+17E2", "U+17E3", "U+17E4", "U+17E5", "U+17E6", "U+17E7", "U+17E8", "U+17E9">>,
       <<"U+1810", "U+1811", "U+1812", "U+1813", "U+1814", "U+1815", "U+1816", "U+1817", "U+1818", "U+1819">>,
       <<"U+1946", "U+1947", "U+1948", "U+1949", "U+194A", "U+194B", "U+194C", "U+194D", "U+194E", "U+194F">>,
       <<"U+19D0", "U+19D1", "U+19D2", "U+19D3", "U+19D4", "U+19D5", "U+19D6", "U+19D7", "U+19D8", "U+19D9">>,
       <<"U+1A80", "U+1A81", "U+1A82", "U+1A83", "U+1A84", "U+1A85", "U+1A86", "U+1A87", "U+1A88", "U+1A89">>,
       <<"U+1A90", "U+1A91", "U+1A92", "U+1A93", "U+1A94", "U+1A95", "U+1A96", "U+1A97", "U+1A98", "U+1A99">>,
       <<"U+1B50", "U+1B51", "U+1B52", "U+1B53", "U+1B54", "U+1B55", "U+1B56", "U+1B57", "U+1B58", "U+1B59">>,
       <<"U+1BB0", "U+1BB1", "U+1BB2", "U+1BB3", "U+1BB4", "U+1BB5", "U+1BB6", "U+1BB7", "U+1BB8", "U+1BB9">>,
       <<"U+1C40", "U+1C41", "U+1C42", "U+1C43", "U+1C44", "U+1C45", "U+1C46", "U+1C47", "U+1C48", "U+1C49">>,
       <<"U+1C50", "U+1C51", "U+1C52", "U+1C53", "U+1C54", "U+1C55", "U+1C56", "U+1C57", "U+1C58", "U+1C59">>,
       <<"U+A620", "U+A621", "U+A622", "U+A623", "U+A624", "U+A625", "U+A626", "U+A627", "U+A628", "U+A629">>,
       <<"U+A8D0", "U+A8D1", "U+A8D2", "U+A8D3", "U+A8D4", "U+A8D5", "U+A8D6", "U+A8D7", "U+A8D8", "U+A8D9">>,
       <<"U+A900", "U+A901", "U+A902", "U+A903", "U+A904", "U+A905", "U+A906", "U+A907", "U+A908", "U+A909">>,
       <<"U+A9D0", "U+A9D1", "U+A9D2", "U+A9D3", "U+A9D4", "U+A9D5", "U+A9D6", "U+A9D7", "U+A9D8", "U+A9D9">>,
       <<"U+A9F0", "U+A9F1", "U+A9F2", "U+A9F3", "U+A9F4", "U+A9F5", "U+A9F6", "U+A9F7", "U+A9F8", "U+A9F9">>,
       <<"U+AA50", "U+AA51", "U+AA52", "U+AA53", "U+AA54", "U+AA55", "U+AA56", "U+AA57", "U+AA58", "U+AA59">>,
       <<"U+ABF0", "U+ABF1", "U+ABF2", "U+ABF3", "U+ABF4", "U+ABF5", "U+ABF6", "U+ABF7", "U+ABF8", "U+ABF9">>,
       <<"U+FF10", "U+FF11", "U+FF12", "U+FF13", "U+FF14", "U+FF15", "U+FF16", "U+FF17", "U+FF18", "U+FF19">>,
       <<"U+104A0", "U+104A1", "U+104A2", "U+104A3", "U+104A4", "U+104A5", "U+104A6", "U+104A7", "U+104A8", "U+104A9">>,
       <<"U+10D30", "U+10D31", "U+10D32", "U+10D33", "U+10D34", "U+10D35", "U+10D36", "U+10D37", "U+10D38", "U+10D39">>,
       <<"U+11066", "U+11067", "U+11068", "U+11069", "U+1106A", "U+1106B", "U+1106C", "U+1106D", "U+1106E", "U+1106F">>,
       <<"U+110F0", "U+110F1", "U+110F2", "U+110F3", "U+110F4", "U+110F5", "U+110F6", "U+110F7", "U+110F8", "U+110F9">>,
       <<"U+11136", "U+11137", "U+11138", "U+11139", "U+1113A", "U+1113B", "U+1113C", "U+1113D", "U+1113E", "U+1113F">>,
       <<"U+111D0", "U+111D1", "U+111D2", "U+111D3", "U+111D4", "U+111D5", "U+111D6", "U+111D7", "U+111D8", "U+111D9">>,
       <<"U+112F0", "U+112F1", "U+112F2", "U+112F3", "U+112F4", "U+112F5", "U+112F6", "U+112F7", "U+112F8", "U+112F9">>,
       <<"U+11450", "U+11451", "U+11452", "U+11453", "U+11454", "U+11455", "U+11456", "U+11457", "U+11458", "U+11459">>,
       <<"U+114D0", "U+114D1", "U+114D2", "U+114D3", "U+114D4", "U+114D5", "U+114D6", "U+114D7", "U+114D8", "U+114D9">>,
       <<"U+11650", "U+11651", "U+11652", "U+11653", "U+11654", "U+11655", "U+11656", "U+11657", "U+11658", "U+11659">>,
       <<"U+116C0", "U+116C1", "U+116C2", "U+116C3", "U+116C4", "U+116C5", "U+116C6", "U+116C7", "U+116C8", "U+116C9">>,
       <<"U+11730", "U+11731", "U+11732", "U+11733", "U+11734", "U+11735", "U+11736", "U+11737", "U+11738", "U+11739">>,
       <<"U+118E0", "U+118E1", "U+118E2", "U+118E3", "U+118E4", "U+118E5", "U+118E6", "U+118E7", "U+118E8", "U+118E9">>,
       <<"U+11950", "U+11951", "U+11952", "U+11953", "U+11954", "U+11955", "U+11956", "U+11957", "U+11958", "U+11959">>,
       <<"U+11C50", "U+11C51", "U+11C52", "U+11C53", "U+11C54", "U+11C55", "U+11C56", "U+11C57", "U+11C58", "U+11C59">>,
       <<"U+11D50", "U+11D51", "U+11D52", "U+11D53", "U+11D54", "U+11D55", "U+11D56", "U+11D57", "U+11D58", "U+11D59">>,
       <<"U+11DA0", "U+11DA1", "U+11DA2", "U+11DA3", "U+11DA4", "U+11DA5", "U+11DA6", "U+11DA7", "U+11DA8", "U+11DA9">>,
       <<"U+16A60", "U+16A61", "U+16A62", "U+16A63", "U+16A64", "U+16A65", "U+16A66", "U+16A67", "U+16A68", "U+16A69">>,
       <<"U+16AC0", "U+16AC1", "U+16AC2", "U+16AC3", "U+16AC4", "U+16AC5", "U+16AC6", "U+16AC7", "U+16AC8", "U+16AC9">>,
       <<"U+16B50", "U+16B51", "U+16B52", "U+16B53", "U+16B54", "U+16B55", "U+16B56", "U+16B57", "U+16B58", "U+16B59">>,
       <<"U+1D7CE", "U+1D7CF", "U+1D7D0", "U+1D7D1", "U+1D7D2", "U+1D7D3", "U+1D7D4", "U+1D7D5", "U+1D7D6", "U+1D7D7">>,
       <<"U+1D7D8", "U+1D7D9", "U+1D7DA", "U+1D7DB", "U+1D7DC", "U+1D7DD", "U+1D7DE", "U+1D7DF", "U+1D7E0", "U+1D7E1">>,
       <<"U+1D7E2", "U+1D7E3", "U+1D7E4", "U+1D7E5", "U+1D7E6", "U+1D7E7", "U+1D7E8", "U+1D7E9", "U+1D7EA", "U+1D7EB">>,
       <<"U+1D7EC", "U+1D7ED", "U+1D7EE", "U+1D7EF", "U+1D7F0", "U+1D7F1", "U+1D7F2", "U+1D7F3", "U+1D7F4", "U+1D7F5">>,
       <<"U+1D7F6", "U+1D7F7", "U+1D7F8", "U+1D7F9", "U+1D7FA", "U+1D7FB", "U+1D7FC", "U+1D7FD", "U+1D7FE", "U+1D7FF">>,
       <<"U+1E140", "U+1E141", "U+1E142", "U+1E143", "U+1E144", "U+1E145", "U+1E146", "U+1E147", "U+1E148", "U+1E149">>,
       <<"U+1E2F0", "U+1E2F1", "U+1E2F2", "U+1E2F3", "U+1E2F4", "U+1E2F5", "U+1E2F6", "U+1E2F7", "U+1E2F8", "U+1E2F9">>,
       <<"U+1E950", "U+1E951", "U+1E952", "U+1E953", "U+1E954", "U+1E955", "U+1E956", "U+1E957", "U+1E958", "U+1E959">>,
       <<"U+1FBF0", "U+1FBF1", "U+1FBF2", "U+1FBF3", "U+1FBF4", "U+1FBF5", "U+1FBF6", "U+1FBF7", "U+1FBF8", "U+1FBF9">> >>

DecimalDigitSet ==
    {DecimalDigits[r][d] : r \in 1..Len(DecimalDigits), d \in 1..10}

IsDigit(c) == c \in DecimalDigitSet

\* The digit 0 to 9 a decimal digit stands for: its place in its script.
DigitVal(c) ==
    LET row == DecimalDigits[CHOOSE r \in 1..Len(DecimalDigits) :
                               \E d \in 1..10 : DecimalDigits[r][d] = c]
    IN  (CHOOSE d \in 1..10 : row[d] = c) - 1

RECURSIVE IntToChars(_)
\* str(n) of a non-negative int.
IntToChars(n) ==
    IF n < 10 THEN <<Digits[n + 1]>>
    ELSE IntToChars(n \div 10) \o <<Digits[(n % 10) + 1]>>

RECURSIVE Normalize(_, _)
\* The decimal m * 10^-e with m free of trailing zeros (e may be negative:
\* 1e22 is Float(1, -22)), and zero as Float(0, 0): equal numbers get equal
\* representations ("37.50" and "37.5").
Normalize(m, e) ==
    IF m = 0 THEN Float(0, 0)
    ELSE IF m % 10 = 0 THEN Normalize(m \div 10, e - 1)
    ELSE Float(m, e)

\* str.lower() on ASCII letters.
Lower(s) ==
    LET UpperCase == <<"A", "B", "C", "D", "E", "F", "G", "H", "I", "J", "K", "L", "M",
                       "N", "O", "P", "Q", "R", "S", "T", "U", "V", "W", "X", "Y", "Z">>
        LowerCase == <<"a", "b", "c", "d", "e", "f", "g", "h", "i", "j", "k", "l", "m",
                       "n", "o", "p", "q", "r", "s", "t", "u", "v", "w", "x", "y", "z">>
    IN  [i \in 1..Len(s) |->
           IF \E k \in 1..26 : UpperCase[k] = s[i]
           THEN LowerCase[CHOOSE k \in 1..26 : UpperCase[k] = s[i]]
           ELSE s[i]]

\* A natural number of any size: the sequence of its decimal digits (0..9),
\* the most significant first, without leading zeros; zero is <<>>.
Zeros(k) == [i \in 1..k |-> 0]

\* a without leading zeros.
BigTrim(a) ==
    IF \A i \in 1..Len(a) : a[i] = 0 THEN <<>>
    ELSE SubSeq(a, CHOOSE i \in 1..Len(a) : a[i] # 0 /\ \A j \in 1..(i - 1) : a[j] = 0,
                Len(a))

\* a without trailing zeros.
BigTrimRight(a) ==
    IF \A i \in 1..Len(a) : a[i] = 0 THEN <<>>
    ELSE SubSeq(a, 1, CHOOSE i \in 1..Len(a) :
                        a[i] # 0 /\ \A j \in (i + 1)..Len(a) : a[j] = 0)

RECURSIVE BigValue(_)
\* The number as an integer.
BigValue(a) ==
    IF a = <<>> THEN 0 ELSE 10 * BigValue(SubSeq(a, 1, Len(a) - 1)) + a[Len(a)]

BigOdd(a) == a # <<>> /\ a[Len(a)] % 2 = 1

\* a < b
BigLess(a, b) ==
    \/ Len(a) < Len(b)
    \/ /\ Len(a) = Len(b)
       /\ \E i \in 1..Len(a) : a[i] < b[i] /\ \A j \in 1..(i - 1) : a[j] = b[j]

\* 2 * a: a digit doubles, and takes the carry of the digit after it.
BigDouble(a) ==
    LET d(i) == IF 1 <= i /\ i <= Len(a) THEN a[i] ELSE 0
    IN  BigTrim(SubSeq([i \in 1..(Len(a) + 1) |->
                          ((2 * d(i - 1)) % 10) + (IF d(i) >= 5 THEN 1 ELSE 0)],
                       1, Len(a) + 1))

\* a \div 2: a digit halves, and takes ten from an odd digit before it.
BigHalf(a) ==
    LET d(i) == IF 1 <= i THEN a[i] ELSE 0
    IN  BigTrim(SubSeq([i \in 1..Len(a) |-> (d(i) + 10 * (d(i - 1) % 2)) \div 2],
                       1, Len(a)))

\* a + 1
BigSucc(a) ==
    IF \A i \in 1..Len(a) : a[i] = 9 THEN <<1>> \o Zeros(Len(a))
    ELSE LET k == CHOOSE i \in 1..Len(a) : a[i] # 9 /\ \A j \in (i + 1)..Len(a) : a[j] = 9
         IN  [i \in 1..Len(a) |-> IF i < k THEN a[i] ELSE IF i = k THEN a[i] + 1 ELSE 0]

\* a - 1 (a > 0)
BigPred(a) ==
    LET k == CHOOSE i \in 1..Len(a) : a[i] # 0 /\ \A j \in (i + 1)..Len(a) : a[j] = 0
    IN  BigTrim([i \in 1..Len(a) |-> IF i < k THEN a[i] ELSE IF i = k THEN a[i] - 1 ELSE 9])

RECURSIVE BigTimesPow2(_, _)
\* a * 2^k
BigTimesPow2(a, k) ==
    IF k = 0 \/ a = <<>> THEN a
    ELSE IF k = 1 THEN BigDouble(a)
    ELSE LET h == BigTimesPow2(a, k \div 2)
         IN  IF h = <<>> THEN h ELSE BigTimesPow2(h, k - k \div 2)

RECURSIVE BigTimesPow5(_, _)
\* a * 5^k: five times a is half of ten times a.
BigTimesPow5(a, k) ==
    IF k = 0 \/ a = <<>> THEN a
    ELSE IF k = 1 THEN BigHalf(a \o <<0>>)
    ELSE LET h == BigTimesPow5(a, k \div 2)
         IN  IF h = <<>> THEN h ELSE BigTimesPow5(h, k - k \div 2)

\* A quotient rounded down, and whether the division left a remainder.
Floor(n, rest) == [n |-> n, rest |-> rest]

RECURSIVE BigDivPow2(_, _)
\* f.n \div 2^k
BigDivPow2(f, k) ==
    IF k = 0 THEN f
    ELSE IF k = 1 THEN Floor(BigHalf(f.n), f.rest \/ BigOdd(f.n))
    ELSE LET h == BigDivPow2(f, k \div 2)
         IN  IF h.n = <<>> THEN h ELSE BigDivPow2(h, k - k \div 2)

\* a \div 10^k
BigDivPow10(a, k) ==
    IF k >= Len(a) THEN Floor(<<>>, a # <<>>)
    ELSE Floor(SubSeq(a, 1, Len(a) - k), \E i \in (Len(a) - k + 1)..Len(a) : a[i] # 0)

\* a * 10^p * 2^s, rounded down.
Scaled(a, p, s) ==
    LET TimesPow10(b) ==
            IF p >= 0 THEN Floor(b \o Zeros(p), FALSE) ELSE BigDivPow10(b, 0 - p)
    IN  IF s < 0 THEN BigDivPow2(TimesPow10(a), 0 - s)
        ELSE TimesPow10(BigTimesPow2(a, s))

\* f.n / 2^g (g >= 1) rounded to the nearest integer, a tie to the even one:
\* the half that is cut off last rounds q up when more is left behind it, or
\* when q is odd.
RoundDivPow2(f, g) ==
    LET Rounded(q, half, rest) ==
            IF half /\ (rest \/ BigOdd(q)) THEN BigSucc(q) ELSE q
        Halved(h) == Rounded(BigHalf(h.n), BigOdd(h.n), h.rest)
    IN  Halved(BigDivPow2(f, g - 1))

\* The powers of two the rounding compares with.
PowersOfTwo == [k \in 52..65 |-> BigTimesPow2(<<1>>, k)]

\* k with 2^k <= n < 2^(k + 1), for n of 60 to 66 bits.
FloorLog2(n) ==
    58 + Cardinality({k \in 59..65 : ~BigLess(n, PowersOfTwo[k])})

\* m * 2^q with m < 2^53: a mantissa rounded up to 2^53 is 2^52 at the next
\* exponent.
Carried(m, q) ==
    IF BigLess(m, PowersOfTwo[53]) THEN [m |-> m, q |-> q]
    ELSE [m |-> BigHalf(m), q |-> q + 1]

\* The double nearest to T.n / 2^s, for T.n of k + 1 bits: 53 bits are kept,
\* down to the exponent -1074 of the subnormal doubles.
DoubleOfBits(T, s, k) ==
    LET q == IF k - 52 - s < 0 - 1074 THEN 0 - 1074 ELSE k - 52 - s
    IN  Carried(RoundDivPow2(T, q + s), q)

\* The double nearest to T.n / 2^s.
DoubleOfScaled(T, s) == DoubleOfBits(T, s, FloorLog2(T.n))

\* The double nearest to a * 10^p (a > 0, without trailing zeros, between
\* 1e-326 and 1e310), a tie to the even one (IEEE 754 round-half-even, as
\* float() rounds): [m, q] for m * 2^q with m < 2^53 and q >= -1074.  The
\* number is first scaled to an integer of 60 to 66 bits (3.3219 is log2(10)),
\* which tells the exponent q.
NearestDouble(a, p) ==
    LET s == 60 - (((Len(a) - 1 + p) * 33219) \div 10000)
    IN  DoubleOfScaled(Scaled(a, p, s), s)

\* c lies between Lo and Hi, the two themselves left out when open.
BigWithin(c, Lo, Hi, open) ==
    IF open THEN BigLess(Lo, c) /\ BigLess(c, Hi)
    ELSE ~BigLess(c, Lo) /\ ~BigLess(Hi, c)

\* V cut to its first n digits, and the next number of n digits above it.
DigitsDown(V, n) == SubSeq(V, 1, n) \o Zeros(Len(V) - n)
DigitsUp(V, n) == BigSucc(SubSeq(V, 1, n)) \o Zeros(Len(V) - n)

\* V lies nearer to DigitsUp(V, n) than to DigitsDown(V, n), or half way
\* with an odd digit n.
NearerUp(V, n) ==
    \/ V[n + 1] > 5
    \/ V[n + 1] = 5 /\ \E i \in (n + 2)..Len(V) : V[i] # 0
    \/ V[n + 1] = 5 /\ V[n] % 2 = 1

\* n digits are enough to tell V between Lo and Hi.
FitsDigits(V, Lo, Hi, open, n) ==
    \/ n >= Len(V)
    \/ BigWithin(DigitsDown(V, n), Lo, Hi, open)
    \/ BigWithin(DigitsUp(V, n), Lo, Hi, open)

RECURSIVE ShortestLen(_, _, _, _, _)
\* The least number of digits, from n on, that are enough.
ShortestLen(V, Lo, Hi, open, n) ==
    IF FitsDigits(V, Lo, Hi, open, n) THEN n ELSE ShortestLen(V, Lo, Hi, open, n + 1)

\* Of the numbers d below and u above, the one between Lo and Hi, the nearer
\* one when both are.
NearestOf(d, u, Lo, Hi, open, up) ==
    IF ~BigWithin(u, Lo, Hi, open) THEN d
    ELSE IF ~BigWithin(d, Lo, Hi, open) THEN u
    ELSE IF up THEN u ELSE d

\* The number of n digits between Lo and Hi nearest to V.
NearestDigits(V, Lo, Hi, open, n) ==
    IF n >= Len(V) THEN V
    ELSE NearestOf(DigitsDown(V, n), DigitsUp(V, n), Lo, Hi, open, NearerUp(V, n))

\* The float c * 10^-e.
DecimalOfDigits(c, e) ==
    Normalize(BigValue(BigTrimRight(c)), e - (Len(c) - Len(BigTrimRight(c))))

\* The shortest decimal between Lo and Hi, the nearest to V of that length.
ShortestBetween(V, Lo, Hi, open, e) ==
    DecimalOfDigits(NearestDigits(V, Lo, Hi, open, ShortestLen(V, Lo, Hi, open, 1)), e)

\* n * 2^q as an integer times a power of ten: n * 2^q, or n * 5^-q (times
\* 10^q) for a negative q.
BigTimesPow(n, q) ==
    IF q >= 0 THEN BigTimesPow2(n, q) ELSE BigTimesPow5(n, 0 - q)

\* repr of the double m * 2^q: the shortest decimal that float() reads back as
\* this double (one between the midpoints Lo and Hi to its neighbours, which
\* themselves read back as the double of the even m), and of those the nearest
\* to it.  The double and the midpoints are held a hundredfold; the double
\* below a power of two 2^52 * 2^q is half as far away.
ShortestDecimal(m, q) ==
    ShortestBetween(BigTimesPow(m \o <<0, 0>>, q),
                    BigTimesPow(BigPred(m) \o (IF m = PowersOfTwo[52] /\ q > 0 - 1074
                                               THEN <<7, 5>> ELSE <<5, 0>>),
                                q),
                    BigTimesPow(m \o <<5, 0>>, q),
                    BigOdd(m),
                    IF q >= 0 THEN 2 ELSE 2 - q)

\* The float of the double d: infinite above the largest double, of the
\* exponent 971.
FloatOfDouble(neg, d) ==
    LET Signed(f) == IF neg THEN Float(0 - f.m, f.e) ELSE f
    IN  IF d.m = <<>> THEN (IF neg THEN NegZero ELSE Float(0, 0))
        ELSE IF d.q > 971 THEN Inf(neg)
        ELSE Signed(ShortestDecimal(d.m, d.q))

\* The float nearest to a * 10^p, a without leading and trailing zeros, and
\* 10^E <= a * 10^p < 10^(E + 1).  A decimal of at most 15 significant digits
\* between 1e-307 and 1e308 is the repr of its double (DBL_DIG), so it is the
\* result itself.
FloatOfTrimmed(neg, a, p, E) ==
    IF a = <<>> \/ E < 0 - 325 THEN (IF neg THEN NegZero ELSE Float(0, 0))
    ELSE IF E > 309 THEN Inf(neg)
    ELSE IF Len(a) <= 15 /\ 0 - 307 <= E /\ E <= 307
    THEN Float(IF neg THEN 0 - BigValue(a) ELSE BigValue(a), 0 - p)
    ELSE FloatOfDouble(neg, NearestDouble(a, p))

\* The float nearest to the decimal a * 10^p, as float() and float of an int
\* give it: zero (with the sign) below half the smallest subnormal double,
\* infinite from the midpoint above the largest double on.
FloatOfDecimal(neg, a, p) ==
    FloatOfTrimmed(neg, BigTrimRight(BigTrim(a)),
                   p + Len(a) - Len(BigTrimRight(a)), Len(BigTrim(a)) - 1 + p)

\* What float(s) reads in a string, a decimal as a numeral of its sign, its
\* digits and its power of ten: surrounding whitespace stripped, an
\* optional sign, then "inf", "infinity" or "nan" in any case, or a decimal:
\* digits (of any script) with at most one point and at least one digit, an
\* optional exponent (e or E, an optional sign, digits), single underscores
\* between digits allowed; anything else is a ValueError.
ParseFloat(s) ==
    LET Signed(t) == t # <<>> /\ Head(t) \in {"-", "+"}
        Negative(t) == t # <<>> /\ Head(t) = "-"
        Unsigned(t) == IF Signed(t) THEN Tail(t) ELSE t
        AllDigits(t) == \A i \in 1..Len(t) : IsDigit(t[i])
        \* The position of the first of the characters cs in t, or Len(t) + 1.
        First(t, cs) ==
            LET at == {i \in 1..Len(t) : t[i] \in cs}
            IN  IF at = {} THEN Len(t) + 1 ELSE CHOOSE i \in at : \A j \in at : i <= j
        DigitValues(t) == [i \in 1..Len(t) |-> DigitVal(t[i])]
        \* The exponent of the digits ds; one of more than 8 digits stands
        \* for zero or infinity as well as 10^8 does.
        Exponent(ds) ==
            IF Len(BigTrim(ds)) > 8 THEN 100000000 ELSE BigValue(BigTrim(ds))
        \* The digits ip.fp times 10^x.
        Decimal(neg, ip, fp, x) ==
            Ok([t |-> "numeral", neg |-> neg, a |-> DigitValues(ip \o fp),
                p |-> x - Len(fp)])
        \* The mantissa split at its point, and the exponent after the e.
        Parts(neg, ip, fp, hasexp, ex) ==
            IF /\ AllDigits(ip) /\ AllDigits(fp) /\ Len(ip) + Len(fp) >= 1
               /\ hasexp => Unsigned(ex) # <<>> /\ AllDigits(Unsigned(ex))
            THEN Decimal(neg, ip, fp,
                         IF ~hasexp THEN 0
                         ELSE IF Negative(ex) THEN 0 - Exponent(DigitValues(Unsigned(ex)))
                         ELSE Exponent(DigitValues(Unsigned(ex))))
            ELSE Raise("ValueError", "float")
        Mantissa(neg, mant, hasexp, ex) ==
            Parts(neg, SubSeq(mant, 1, First(mant, {"."}) - 1),
                  SubSeq(mant, First(mant, {"."}) + 1, Len(mant)), hasexp, ex)
        \* d: the number without its sign and underscores.
        Plain(neg, d) ==
            Mantissa(neg, SubSeq(d, 1, First(d, {"e", "E"}) - 1),
                     First(d, {"e", "E"}) <= Len(d),
                     SubSeq(d, First(d, {"e", "E"}) + 1, Len(d)))
        \* Every underscore stands between two digits.
        Underscores(b) ==
            \A i \in 1..Len(b) :
               b[i] = "_" => /\ 1 < i /\ i < Len(b)
                             /\ IsDigit(b[i - 1]) /\ IsDigit(b[i + 1])
        Body(neg, b) ==
            IF Lower(b) \in {<<"i", "n", "f">>, <<"i", "n", "f", "i", "n", "i", "t", "y">>}
            THEN Ok(Inf(neg))
            ELSE IF Lower(b) = <<"n", "a", "n">> THEN Ok(NaN)
            ELSE IF ~Underscores(b) THEN Raise("ValueError", "float")
            ELSE Plain(neg, SelectSeq(b, LAMBDA c : c # "_"))
        Stripped(u) == Body(Negative(u), Unsigned(u))
    IN  Stripped(RStrip(LStrip(s, FloatWhitespace), FloatWhitespace))

\* The float of what was read: a numeral is rounded to the nearest double.
FloatOfParsed(r) ==
    IF r.ok /\ r.v.t = "numeral" THEN Ok(FloatOfDecimal(r.v.neg, r.v.a, r.v.p)) ELSE r

\* float(s) on a string.
FloatOfChars(s) == FloatOfParsed(ParseFloat(s))

\* float(n) of an int: the nearest double, OverflowError beyond the doubles.
FloatOfInt(n) ==
    LET Finite(r) == IF r.v.t = "inf" THEN Raise("OverflowError", "int") ELSE r
        Of(neg, chars) ==
            Ok([t |-> "numeral", neg |-> neg,
                a |-> [i \in 1..Len(chars) |-> DigitVal(chars[i])], p |-> 0])
    IN  Finite(FloatOfParsed(Of(n < 0, IntToChars(IF n < 0 THEN 0 - n ELSE n))))

\* float(v): a bool is an int (True is 1), a float is itself.
PyFloat(v) ==
    CASE v.t = "str" -> FloatOfChars(v.s)
      [] v.t = "float" -> Ok(Normalize(v.m, v.e))
      [] v.t = "int" -> FloatOfInt(v.n)
      [] v.t = "bool" -> Ok(Float(IF v.b THEN 1 ELSE 0, 0))
      [] v.t \in {"nan", "inf", "negzero"} -> Ok(v)
      [] OTHER -> Raise("TypeError", v.t)

\* chars, with zeros in front up to the width.
RECURSIVE PadZeros(_, _)
PadZeros(chars, width) ==
    IF Len(chars) >= width THEN chars ELSE PadZeros(<<"0">> \o chars, width)

\* repr of a finite float m * 10^-e: its digits with a point ("12.0", "12.5",
\* "0.001"), in exponent notation below 1e-4 and from 1e16 on ("1e-05",
\* "1.5e+16").
FloatRepr(m, e) ==
    LET ZeroChars(k) == [i \in 1..k |-> "0"]
        \* ds: the digits; the point stands after the first pt of them.
        Fixed(ds, pt) ==
            IF pt <= 0 THEN <<"0", ".">> \o ZeroChars(0 - pt) \o ds
            ELSE IF pt >= Len(ds) THEN ds \o ZeroChars(pt - Len(ds)) \o <<".", "0">>
            ELSE SubSeq(ds, 1, pt) \o <<".">> \o SubSeq(ds, pt + 1, Len(ds))
        Exponent(x) ==
            <<"e", IF x < 0 THEN "-" ELSE "+">>
              \o PadZeros(IntToChars(IF x < 0 THEN 0 - x ELSE x), 2)
        Scientific(ds, pt) ==
            <<Head(ds)>> \o (IF Len(ds) > 1 THEN <<".">> \o Tail(ds) ELSE <<>>)
              \o Exponent(pt - 1)
        Digits10(ds, pt) ==
            IF pt > 16 \/ pt < 0 - 3 THEN Scientific(ds, pt) ELSE Fixed(ds, pt)
        Of(n) ==
            (IF n.m < 0 THEN <<"-">> ELSE <<>>)
              \o Digits10(IntToChars(IF n.m < 0 THEN 0 - n.m ELSE n.m),
                          Len(IntToChars(IF n.m < 0 THEN 0 - n.m ELSE n.m)) - n.e)
    IN  Of(Normalize(m, e))

\* str(v) for the values a cell can hold.  (str of a dict spells its items in
\* insertion order, which a function does not keep: no value here.)
PyStr(v) ==
    CASE v.t = "str" -> v.s
      [] v.t = "int" -> IF v.n < 0 THEN <<"-">> \o IntToChars(0 - v.n) ELSE IntToChars(v.n)
      [] v.t = "bool" -> IF v.b THEN <<"T", "r", "u", "e">> ELSE <<"F", "a", "l", "s", "e">>
      [] v.t = "float" -> FloatRepr(v.m, v.e)
      [] v.t = "negzero" -> <<"-", "0", ".", "0">>
      [] v.t = "inf" -> IF v.neg THEN <<"-", "i", "n", "f">> ELSE <<"i", "n", "f">>
      [] v.t = "nan" -> <<"n", "a", "n">>
      [] v.t = "none" -> <<"N", "o", "n", "e">>

\* pd.isna(v) on a scalar.
IsNa(v) == v.t \in {"nan", "none"}

\* bool(v): the truth value `if v:` tests.
Truthy(v) ==
    CASE v.t = "bool" -> v.b
      [] v.t = "str" -> v.s # <<>>
      [] v.t = "fstr" -> v.lit # ""
      [] v.t = "int" -> v.n # 0
      [] v.t = "float" -> v.m # 0
      [] v.t \in {"nan", "inf"} -> TRUE
      [] v.t \in {"none", "negzero"} -> FALSE
      [] v.t = "dict" -> DOMAIN v.o # {}

\* d.get(k, default)
DictGet(d, k, default) == IF k \in DOMAIN d THEN d[k] ELSE default

-----------------------------------------------------------------------------
(* The remote service, as the code sees it *)

\* requests.get raised (Timeout, ConnectionError): no response object.
Raises(type) == [io |-> "raise", exc |-> type]

\* requests.get returned a response with this status code and body.
Http(code, body) == [io |-> "ok", status_code |-> code, body |-> body]

\* A body response.json() cannot parse, and one it parses to v.
Unparseable == [json |-> FALSE]
Json(v) == [json |-> TRUE, v |-> v]

S_OK == <<"O", "K">>
S_NOT_FOUND == <<"N", "O", "T", "_", "F", "O", "U", "N", "D">>
S_INVALID_KEY == <<"I", "N", "V", "A", "L", "I", "D", "_", "K", "E", "Y">>
S_PARCEL == "PARCEL"
S_ROAD == "ROAD"

\* get_parms(query, type_hint): the parameters that differ between requests
\* and variants (service, request, version, refine, simple, format are fixed).
get_parms(crs, query, type_hint, api_key) ==
    [crs |-> crs, address |-> query, type |-> type_hint, key |-> api_key]

\* requests.get(base_url, params=..., headers=headers, timeout=10): what the
\* service answers to a request is decided by its lookup mode and address.
requests_get(svc, params) == svc[<<params.type, params.address>>]

\* response.json()
response_json(resp) ==
    IF resp.body.json THEN Ok(resp.body.v) ELSE Raise("JSONDecodeError", "body")


-----------------------------------------------------------------------------
(* geocoding_latlong: the two variants *)

\* The two files of the repository; each is a complete application.
Variants == {"main", "checkpoint"}

\* "crs" of get_parms: epsg:4326 in geocoding.py, epsg:4019 in the checkpoint.
CrsOf(v) == IF v = "main" THEN "epsg:4326" ELSE "epsg:4019"

\* {'found': False, 'error': ...}
Unresolved(error) == [found |-> PyBool(FALSE), error |-> error]

\* f"HTTP 에러: {response.status_code}" (main),
\* f"HTTP 접속 오류 ({response.status_code})" (checkpoint)
HttpError(v, code) ==
    Unresolved(FStr(IF v = "main" THEN "HTTP error: {}" ELSE "HTTP connect error ({})",
                    <<PyInt(code)>>))

\* f"API 에러: {status} ({msg})"
ApiError(status, msg) == Unresolved(FStr("API error: {} ({})", <<status, msg>>))

\* f"시스템 에러: {str(e)}"
SystemError(exc) == Unresolved(FStr("system error: {}", <<exc>>))

\* The return after the try block: '결과 없음 (V-World 응답 확인 필요)' (main),
\* '주소 불명 (결과 없음)' (checkpoint).
NoResult(v) ==
    Unresolved(FStr(IF v = "main" THEN "no result (check the V-World response)"
                    ELSE "address unknown (no result)", <<>>))

\* '빈 값'
BlankValue == Unresolved(FStr("blank value", <<>>))

\* What a stretch of the function body does: return a dict, or go on to the
\* ROAD request.
Return(res) == Ok([k |-> "return", res |-> res])
GoOn == Ok([k |-> "road"])

\* ReturnPoint with x taken for the latitude and y for the longitude.
ReturnPointSwapped(json) ==
    LET res == Sub(Sub(Sub(Ok(json), "response"), "result"), "point")
        ry == Sub(res, "x")
        lat == IF ry.ok THEN PyFloat(ry.v) ELSE ry
        rx == Sub(res, "y")
        lng == IF rx.ok THEN PyFloat(rx.v) ELSE rx
    IN  IF ~res.ok THEN res
        ELSE IF ~lat.ok THEN lat
        ELSE IF ~lng.ok THEN lng
        ELSE Ok([k |-> "return",
                 res |-> [lat |-> lat.v, lng |-> lng.v, found |-> PyBool(TRUE),
                          level |-> Str(<<"e", "x", "a", "c", "t">>)]])

\* res = json_data['response']['result']['point']
\* return {'lat': float(res['y']), 'lng': float(res['x']), 'found': True,
\*         'level': 'exact'}
ReturnPoint(json) ==
    LET res == Sub(Sub(Sub(Ok(json), "response"), "result"), "point")
        ry == Sub(res, "y")
        lat == IF ry.ok THEN PyFloat(ry.v) ELSE ry
        rx == Sub(res, "x")
        lng == IF rx.ok THEN PyFloat(rx.v) ELSE rx
    IN  IF ~res.ok THEN res
        ELSE IF ~lat.ok THEN lat
        ELSE IF ~lng.ok THEN lng
        ELSE Return([lat |-> lat.v, lng |-> lng.v, found |-> PyBool(TRUE),
                     level |-> Str(<<"e", "x", "a", "c", "t">>)])

\* data['response'].get('text', '') of the checkpoint variant; the subscript
\* ['status'] has succeeded before, so data['response'] is a dict.
ResponseText(json) ==
    LET r == Subscript(json, "response")
    IN  IF r.ok /\ r.v.t = "dict" THEN Ok(DictGet(r.v.o, "text", Str(<<>>)))
        ELSE Raise("AttributeError", "get")

\* The PARCEL stretch with response.json() and the status lookup moved before
\* the test of response.status_code.
ParcelBodyParsesFirst(v, g) ==
    IF g.io = "raise" THEN Raise(g.exc, "requests.get")
    ELSE
      LET json_data == response_json(g)
          status == Sub(Sub(json_data, "response"), "status")
      IN  IF ~status.ok THEN status
          ELSE IF g.status_code # 200 THEN Return(HttpError(v, g.status_code))
          ELSE IF v = "main"
          THEN IF status.v # Str(S_OK) THEN GoOn ELSE ReturnPoint(json_data.v)
          ELSE IF status.v = Str(S_OK) THEN ReturnPoint(json_data.v)
          ELSE IF status.v = Str(S_NOT_FOUND) THEN GoOn
          ELSE LET msg == ResponseText(json_data.v)
               IN  IF msg.ok THEN Return(ApiError(status.v, msg.v)) ELSE msg

\* The PARCEL stretch with a checkpoint variant that takes NOT_FOUND for a
\* service error like any other status.
ParcelBodyNotFoundTerminal(v, g) ==
    IF g.io = "raise" THEN Raise(g.exc, "requests.get")
    ELSE IF g.status_code # 200 THEN Return(HttpError(v, g.status_code))
    ELSE
      LET json_data == response_json(g)
          status == Sub(Sub(json_data, "response"), "status")
      IN  IF ~status.ok THEN status
          ELSE IF v = "main"
          THEN IF status.v # Str(S_OK) THEN GoOn ELSE ReturnPoint(json_data.v)
          ELSE IF status.v = Str(S_OK) THEN ReturnPoint(json_data.v)
          ELSE LET msg == ResponseText(json_data.v)
               IN  IF msg.ok THEN Return(ApiError(status.v, msg.v)) ELSE msg

\* The try block from the PARCEL response to the ROAD request, before the
\* except clause applies.  g is what requests.get did.
ParcelBody(v, g) ==
    IF g.io = "raise" THEN Raise(g.exc, "requests.get")
    ELSE IF g.status_code # 200 THEN Return(HttpError(v, g.status_code))
    ELSE
      LET json_data == response_json(g)
          status == Sub(Sub(json_data, "response"), "status")
      IN  IF ~status.ok THEN status
          ELSE IF v = "main"
          THEN IF status.v # Str(S_OK) THEN GoOn ELSE ReturnPoint(json_data.v)
          ELSE IF status.v = Str(S_OK) THEN ReturnPoint(json_data.v)
          ELSE IF status.v = Str(S_NOT_FOUND) THEN GoOn
          ELSE LET msg == ResponseText(json_data.v)
               IN  IF msg.ok THEN Return(ApiError(status.v, msg.v)) ELSE msg

\* The ROAD stretch returning the point of the answer without a look at its
\* status.
RoadBodyStatusUnchecked(v, g) ==
    IF g.io = "raise" THEN Raise(g.exc, "requests.get")
    ELSE
      LET json_data == response_json(g)
          status == Sub(Sub(json_data, "response"), "status")
      IN  IF ~status.ok THEN status ELSE ReturnPoint(json_data.v)

\* The ROAD stretch with the test of response.status_code that the PARCEL
\* stretch makes.
RoadBodyChecksCode(v, g) ==
    IF g.io = "raise" THEN Raise(g.exc, "requests.get")
    ELSE IF g.status_code # 200 THEN Return(HttpError(v, g.status_code))
    ELSE
      LET json_data == response_json(g)
          status == Sub(Sub(json_data, "response"), "status")
      IN  IF ~status.ok THEN status
          ELSE IF status.v = Str(S_OK) THEN ReturnPoint(json_data.v)
          ELSE IF v = "main" \/ status.v = Str(S_NOT_FOUND) THEN Return(NoResult(v))
          ELSE LET msg == ResponseText(json_data.v)
               IN  IF msg.ok THEN Return(ApiError(status.v, msg.v)) ELSE msg

\* The try block from the ROAD response on, and the return that follows it.
RoadBody(v, g) ==
    IF g.io = "raise" THEN Raise(g.exc, "requests.get")
    ELSE
      LET json_data == response_json(g)
          status == Sub(Sub(json_data, "response"), "status")
      IN  IF ~status.ok THEN status
          ELSE IF status.v = Str(S_OK) THEN ReturnPoint(json_data.v)
          ELSE IF v = "main" \/ status.v = Str(S_NOT_FOUND) THEN Return(NoResult(v))
          ELSE LET msg == ResponseText(json_data.v)
               IN  IF msg.ok THEN Return(ApiError(status.v, msg.v)) ELSE msg

\* An except clause that catches the exceptions of requests only.
ExceptRequestsOnly(r) ==
    IF r.ok \/ r.exc.type \notin {"Timeout", "ConnectionError"} THEN r
    ELSE Return(SystemError(r.exc))

\* except Exception as e: return {'found': False, 'error': f"시스템 에러: ..."}
ExceptException(r) == IF r.ok THEN r ELSE Return(SystemError(r.exc))

\* geocoding_latlong up to its first return or its ROAD request.
geocoding_latlong_parcel(v, g) == ExceptException(ParcelBody(v, g))

\* geocoding_latlong from its ROAD response to its return.
geocoding_latlong_road(v, g) == ExceptException(RoadBody(v, g))

\* The blank test without strip().
IsBlankNoStrip(addr) == IsNa(addr) \/ PyStr(addr) = <<>>

\* process_row: pd.isna(addr) or str(addr).strip() == ""
IsBlank(addr) == IsNa(addr) \/ Strip(PyStr(addr)) = <<>>

\* process_row: row_dict = row.to_dict(); row_dict.update(res); return row_dict
MergeRow(row, res) == DictUpdate(row, res)

\* geocoding_latlong(address, api_key) as a whole, against the service svc:
\* the requests it issues, in order, and the dict it returns.
geocoding_latlong(v, svc, address, key) ==
    LET p1 == get_parms(CrsOf(v), address, S_PARCEL, key)
        r1 == geocoding_latlong_parcel(v, requests_get(svc, p1))
        p2 == get_parms(CrsOf(v), address, S_ROAD, key)
        r2 == geocoding_latlong_road(v, requests_get(svc, p2))
    IN  IF r1.v.k = "return" THEN [requests |-> <<p1>>, res |-> r1.v.res]
        ELSE [requests |-> <<p1, p2>>, res |-> r2.v.res]

\* process_row(row, addr_col, api_key) as a whole: the requests issued and the
\* row_dict returned.
process_row(v, svc, row, col, key) ==
    LET addr == row[col]
    IN  IF IsBlank(addr)
        THEN [requests |-> <<>>, row_dict |-> MergeRow(row, BlankValue)]
        ELSE LET out == geocoding_latlong(v, svc, PyStr(addr), key)
             IN  [requests |-> out.requests, row_dict |-> MergeRow(row, out.res)]

\* convert_tm(lat, lng): TMY, TMX = transformer.transform(lat, lng);
\* return TMX, TMY.  The projection itself (pyproj, EPSG:4326 or EPSG:4019 to
\* EPSG:5186) is left uninterpreted: a term over its arguments.
Transform(v, lat, lng) ==
    <<[t |-> "proj", axis |-> "northing", crs |-> CrsOf(v), lat |-> lat, lng |-> lng],
      [t |-> "proj", axis |-> "easting", crs |-> CrsOf(v), lat |-> lat, lng |-> lng]>>

convert_tm(v, lat, lng) ==
    LET p == Transform(v, lat, lng)
        TMY == p[1]
        TMX == p[2]
    IN  <<TMX, TMY>>

\* The body of the as_completed loop on one future's result, up to the append:
\* if row_result.get('found'): row_result['TMX'], row_result['TMY'] = convert_tm(...)
WithTM(v, row_result) ==
    IF Truthy(DictGet(row_result, "found", None))
    THEN LET tm == convert_tm(v, row_result["lat"], row_result["lng"])
         IN  DictUpdate(row_result, [TMX |-> tm[1], TMY |-> tm[2]])
    ELSE row_result

-----------------------------------------------------------------------------
(* Inputs: tables and service doubles *)

\* ThreadPoolExecutor(max_workers=10)
max_workers == 10

\* Number of rows of the table of the worker-pool specification: one more
\* than the pool has worker threads.
PoolRows == max_workers + 1

\* The column the user selected as the address column.
addr_col == "addr"

\* api_key_input
api_key == Str(<<"k">>)

Types == {S_PARCEL, S_ROAD}

A_a == Str(<<"a">>)
A_b == Str(<<"b">>)
A_c == Str(<<"c">>)
A_d == Str(<<"d">>)
A_padded == Str(<<" ", "a", " ">>)
A_int == PyInt(12)

\* Cell values process_row takes for "no value".
BlankAddrs == {NaN, None, Str(<<>>), Str(<<" ">>), Str(<<"\t", " ">>), Str(<<"\r", "\f">>)}

\* Address cells of the batch specification and of the single-row one.
BatchAddrs == {NaN, A_a, A_b, A_c, A_d}
ResolveAddrs == {NaN, Str(<<"\t", " ">>), Str(<<"\r", "\f">>), A_a, A_padded, A_int}

\* Every address string a request can carry.
Queries == {PyStr(a) : a \in (BatchAddrs \cup ResolveAddrs) \ BlankAddrs}

\* The address strings of a table's rows.
QueriesOf(table) == {PyStr(table[i][addr_col]) : i \in DOMAIN table}

\* An input table keeps one set of columns for all its rows.  Besides the
\* address column a table may carry one more column, whose name may be one
\* the result also uses; its cell in row i holds i.
ExtraColumns == {"", "name", "error", "lat"}

RowOf(extra, i, addr) ==
    IF extra = "" THEN [c \in {addr_col} |-> addr]
    ELSE [c \in {addr_col, extra} |-> IF c = addr_col THEN addr ELSE PyInt(i)]

TablesOf(n, addrs, extras) ==
    {[i \in 1..n |-> RowOf(x, i, a[i])] : x \in extras, a \in [1..n -> addrs]}

\* JSON bodies of the service: {response: {status, result: {point: {x, y}}, text}}
Point(x, y) == Obj([x |-> x, y |-> y])
J_Ok(point) == Obj([response |-> Obj([status |-> Str(S_OK), result |-> Obj([point |-> point])])])
J_NotFound == Obj([response |-> Obj([status |-> Str(S_NOT_FOUND)])])
J_Error(status) == Obj([response |-> Obj([status |-> Str(status)])])
J_ErrorText(status, text) == Obj([response |-> Obj([status |-> Str(status), text |-> Str(text)])])
J_NoResponse == Obj(EmptyDict)
J_ResponseNull == Obj([response |-> None])
J_NoStatus == Obj([response |-> Obj([text |-> Str(<<"x">>)])])
J_OkNoResult == Obj([response |-> Obj([status |-> Str(S_OK)])])
J_OkNoPoint == Obj([response |-> Obj([status |-> Str(S_OK), result |-> Obj([crs |-> Str(<<"x">>)])])])
J_NotFoundPoint(point) ==
    Obj([response |-> Obj([status |-> Str(S_NOT_FOUND), result |-> Obj([point |-> point])])])

C_127_0 == Str(<<"1", "2", "7", ".", "0">>)
C_37_5 == Str(<<"3", "7", ".", "5">>)
C_127_1 == Str(<<"1", "2", "7", ".", "1">>)
C_37_6 == Str(<<" ", "3", "7", ".", "6", "0">>)
C_bad == Str(<<"x">>)
C_1e2 == Str(<<"1", ".", "2", "_", "7", "e", "2">>)
C_nan == Str(<<"N", "a", "N">>)
\* Digits of other scripts: fullwidth 127.0, Arabic-Indic 37.5.
C_fullwidth == Str(<<"U+FF11", "U+FF12", "U+FF17", ".", "U+FF10">>)
C_arabic == Str(<<"U+0663", "U+0667", ".", "U+0665">>)
\* Beyond the doubles: 1e400 is inf, 1e-400 is 0.0.
C_1e400 == Str(<<"1", "e", "4", "0", "0">>)
C_1e_400 == Str(<<"1", "e", "-", "4", "0", "0">>)
\* More digits than a double holds: the nearest double is 37.5.
C_long == Str(<<"3", "7", ".", "5", "0", "0", "0", "0", "0", "0", "0", "0", "0", "0", "0",
                "0", "0", "0", "0", "1">>)

Points ==
    { Point(C_127_0, C_37_5), Point(C_127_1, C_37_6), Point(Float(1275, 1), PyInt(37)),
      Point(C_1e2, PyBool(TRUE)), Point(C_nan, C_37_5),
      Point(C_fullwidth, C_arabic), Point(C_1e400, C_1e_400), Point(C_127_0, C_long),
      Point(C_bad, C_37_5), Point(C_127_0, None), Obj([x |-> C_127_0]) }

Bodies ==
    {Unparseable} \cup
    {Json(j) : j \in {J_Ok(p) : p \in Points} \cup
                     { J_NotFound, J_Error(S_INVALID_KEY), J_ErrorText(S_INVALID_KEY, <<"b", "a", "d">>),
                       J_NoResponse, J_ResponseNull, J_NoStatus, J_OkNoResult, J_OkNoPoint,
                       J_NotFoundPoint(Point(C_127_0, C_37_5)) }}

Responses ==
    {Raises("Timeout"), Raises("ConnectionError")} \cup
    {Http(c, b) : c \in {200, 500}, b \in Bodies}

\* A double answering every address alike: f gives the answer of each mode.
Uniform(f) == [r \in Types \X Queries |-> f[r[1]]]

\* Ways an address can fare with the service, as the answers of the two
\* modes: found at the first tier; found at the second; found at neither;
\* the first request times out; the first answer is no transport success; a
\* service error at the first tier and, behind it, coordinates that are no
\* numbers.
BatchAnswers ==
    << [PARCEL |-> Http(200, Json(J_Ok(Point(C_127_0, C_37_5)))),
        ROAD |-> Http(200, Json(J_NotFound))],
       [PARCEL |-> Http(200, Json(J_NotFound)),
        ROAD |-> Http(200, Json(J_Ok(Point(Float(1275, 1), PyInt(37)))))],
       [PARCEL |-> Http(200, Json(J_NotFound)),
        ROAD |-> Http(200, Json(J_NotFound))],
       [PARCEL |-> Raises("Timeout"),
        ROAD |-> Http(200, Json(J_NotFound))],
       [PARCEL |-> Http(500, Unparseable),
        ROAD |-> Http(200, Json(J_Ok(Point(C_127_0, C_37_5))))],
       [PARCEL |-> Http(200, Json(J_ErrorText(S_INVALID_KEY, <<"b", "a", "d">>))),
        ROAD |-> Http(500, Json(J_Ok(Point(C_bad, C_37_5))))] >>

\* Doubles of the batch specification: the answer depends on the address.
\* The double of shift s gives the k-th address the (k + s)-th way to fare, so
\* that over the doubles every address fares in every way, and every two
\* addresses in every two different ways.
BatchServices ==
    LET addresses == <<A_a, A_b, A_c, A_d>>
        ways == Len(BatchAnswers)
    IN  { [r \in Types \X Queries |->
             IF \E k \in 1..Len(addresses) : r[2] = addresses[k].s
             THEN LET k == CHOOSE k \in 1..Len(addresses) : r[2] = addresses[k].s
                  IN  BatchAnswers[((k + shift) % ways) + 1][r[1]]
             ELSE Http(200, Json(J_NotFound))] : shift \in 0..(ways - 1) }

\* Doubles that answer address "a" as f says and find every other address.
FaultDouble(f) ==
    [r \in Types \X Queries |->
       IF r[2] = A_a.s THEN f[r[1]] ELSE Http(200, Json(J_Ok(Point(C_127_1, C_37_6))))]

\* The double of the worker-pool specification: every request runs into its
\* timeout, so that every task holds its worker thread as long as it can.
PoolService == Uniform([y \in Types |-> Raises("Timeout")])

-----------------------------------------------------------------------------
(* State *)

VARIABLES
    variant,          \* which file of the repository runs
    df,               \* the input table: a sequence of rows (column -> cell)
    service,          \* the remote service: (mode, address) -> what requests.get does,
                      \* for the addresses of the table
    submitted,        \* rows for which executor.submit has been called
    queue,            \* the executor's work queue: submitted tasks no worker has taken
    pc,               \* per task: "new", "queued" (submitted, in the work queue),
                      \* "taken" (a worker thread holds it, process_row has not
                      \* begun), "parcel", "road" (waiting for that answer), "done"
    calls,            \* per task: invocations of geocoding_latlong
    reqs,             \* per task: the parameters of the requests it issued, in order
    resps,            \* per task: what requests.get did for each of them, in order
    ret,              \* per task: <<>> while it runs, then <<outcome of the future>>
                      \* (the dict it holds, as it is now, or the exception)
    results,          \* the list results
    origin,           \* future_to_row[future] of each collected future, in order
    completed_count,  \* completed_count
    progress_bar,     \* the values progress_bar has shown, in order
    status_text,      \* the texts status_text has shown, in order
    phase,            \* "run", "done" (result table built), "aborted"
    result_df         \* pd.DataFrame(results), once built

vars == <<variant, df, service, submitted, queue, pc, calls, reqs, resps, ret,
          results, origin, completed_count, progress_bar, status_text, phase,
          result_df>>

Tasks == 1..Len(df)

\* total = len(df)
total == Len(df)

\* Tasks held by worker threads: taken from the work queue and not finished.
Running == {i \in Tasks : pc[i] \in {"taken", "parcel", "road"}}

Range(f) == {f[i] : i \in DOMAIN f}

\* pd.DataFrame(results): one column per key of any dict, NaN where a dict
\* lacks the key.
DataFrame(rs) ==
    LET columns == UNION {DOMAIN rs[k] : k \in 1..Len(rs)}
    IN  [k \in 1..Len(rs) |->
           [c \in columns |-> IF c \in DOMAIN rs[k] THEN rs[k][c] ELSE NaN]]

InitWith(tables, services) ==
    /\ variant \in Variants
    /\ df \in tables
    /\ service \in {[r \in Types \X (QueriesOf(df) \cap Queries) |-> s[r]] : s \in services}
    /\ submitted = 0
    /\ queue = <<>>
    /\ pc = [i \in Tasks |-> "new"]
    /\ calls = [i \in Tasks |-> 0]
    /\ reqs = [i \in Tasks |-> <<>>]
    /\ resps = [i \in Tasks |-> <<>>]
    /\ ret = [i \in Tasks |-> <<>>]
    /\ results = <<>>
    /\ origin = <<>>
    /\ completed_count = 0
    /\ progress_bar = <<PyInt(0)>>
    /\ status_text = <<>>
    /\ phase = "run"
    /\ result_df = <<>>

\* The batch: tables of up to MaxRows rows, doubles that tell addresses apart.
Init ==
    InitWith(UNION {TablesOf(n, BatchAddrs, ExtraColumns) : n \in 0..MaxRows},
             BatchServices)

\* The batch with tables of the address column alone.
InitLive ==
    InitWith(UNION {TablesOf(n, BatchAddrs, {""}) : n \in 0..MaxRows}, BatchServices)

\* One row, every answer of the service at either tier.
InitResolve ==
    InitWith(TablesOf(1, ResolveAddrs, {""}),
             {Uniform(f) : f \in [Types -> Responses]})

\* Two rows: the service answers the first row's address in every way and
\* always finds the second row's.
InitFaults ==
    InitWith({<<RowOf("", 1, A_a), RowOf("", 2, A_b)>>},
             {FaultDouble(f) : f \in [Types -> Responses]})

\* One row more than the pool has workers, every row with an address.
InitPool == InitWith(TablesOf(PoolRows, {A_a}, {""}), {PoolService})

-----------------------------------------------------------------------------
(* Operations *)

\* executor.submit(process_row, row, addr_col, api_key_input) for the next row
\* of df.iterrows().
Submit ==
    /\ phase = "run"
    /\ submitted < total
    /\ submitted' = submitted + 1
    /\ pc' = [pc EXCEPT ![submitted + 1] = "queued"]
    /\ queue' = Append(queue, submitted + 1)
    /\ UNCHANGED <<variant, df, service, calls, reqs, resps, ret, results, origin,
                   completed_count, progress_bar, status_text, phase, result_df>>

\* A pool that starts a thread for every task.
WorkerFreeAlways == TRUE

\* A worker thread is free to take a task: fewer than max_workers tasks are
\* held by threads of the pool.
WorkerFree == Cardinality(Running) < max_workers

\* A worker thread of the executor takes the oldest task of the work queue.
\* process_row has not begun: the thread has yet to be scheduled to call it,
\* and tasks taken later by other threads may begin, finish and be collected
\* before it does.
Take(i) ==
    /\ queue # <<>>
    /\ i = Head(queue)
    /\ WorkerFree
    /\ queue' = Tail(queue)
    /\ pc' = [pc EXCEPT ![i] = "taken"]
    /\ UNCHANGED <<variant, df, service, submitted, calls, reqs, resps, ret, results,
                   origin, completed_count, progress_bar, status_text, phase,
                   result_df>>

\* A task that, for a blank address, appends its row to results and raises
\* completed_count itself.
BeginWriting(i) ==
    /\ pc[i] = "taken"
    /\ LET addr == df[i][addr_col]
       IN  IF IsBlank(addr)
           THEN /\ pc' = [pc EXCEPT ![i] = "done"]
                /\ ret' = [ret EXCEPT ![i] = <<Ok(MergeRow(df[i], BlankValue))>>]
                /\ results' = Append(results, MergeRow(df[i], BlankValue))
                /\ completed_count' = completed_count + 1
                /\ UNCHANGED <<calls, reqs>>
           ELSE /\ pc' = [pc EXCEPT ![i] = "parcel"]
                /\ calls' = [calls EXCEPT ![i] = @ + 1]
                /\ reqs' = [reqs EXCEPT ![i] =
                              Append(@, get_parms(CrsOf(variant), PyStr(addr), S_PARCEL, api_key))]
                /\ UNCHANGED <<ret, results, completed_count>>
    /\ UNCHANGED <<variant, df, service, submitted, queue, resps, origin, progress_bar,
                   status_text, phase, result_df>>

\* The thread that took task i runs process_row up to its return (a blank
\* address) or up to the PARCEL request of geocoding_latlong.
Begin(i) ==
    /\ pc[i] = "taken"
    /\ LET addr == df[i][addr_col]
       IN  IF IsBlank(addr)
           THEN /\ pc' = [pc EXCEPT ![i] = "done"]
                /\ ret' = [ret EXCEPT ![i] = <<Ok(MergeRow(df[i], BlankValue))>>]
                /\ UNCHANGED <<calls, reqs>>
           ELSE /\ pc' = [pc EXCEPT ![i] = "parcel"]
                /\ calls' = [calls EXCEPT ![i] = @ + 1]
                /\ reqs' = [reqs EXCEPT ![i] =
                              Append(@, get_parms(CrsOf(variant), PyStr(addr), S_PARCEL, api_key))]
                /\ UNCHANGED ret
    /\ UNCHANGED <<variant, df, service, submitted, queue, resps, results, origin,
                   completed_count, progress_bar, status_text, phase, result_df>>

\* Continue with the ROAD request carrying the stripped address.
ContinueRefined(i, r) ==
    IF r.ok /\ r.v.k = "road"
    THEN /\ pc' = [pc EXCEPT ![i] = "road"]
         /\ reqs' = [reqs EXCEPT ![i] =
                       Append(@, get_parms(CrsOf(variant), Strip(reqs[i][1].address),
                                           S_ROAD, api_key))]
         /\ UNCHANGED ret
    ELSE /\ pc' = [pc EXCEPT ![i] = "done"]
         /\ ret' = [ret EXCEPT ![i] =
                      <<IF r.ok THEN Ok(MergeRow(df[i], r.v.res)) ELSE r>>]
         /\ UNCHANGED reqs

\* What the task does with the outcome r of a stretch of geocoding_latlong:
\* the future ends with the merged row (or with the exception), or the ROAD
\* request is issued.
Continue(i, r) ==
    IF r.ok /\ r.v.k = "road"
    THEN /\ pc' = [pc EXCEPT ![i] = "road"]
         /\ reqs' = [reqs EXCEPT ![i] =
                       Append(@, get_parms(CrsOf(variant), reqs[i][1].address, S_ROAD, api_key))]
         /\ UNCHANGED ret
    ELSE /\ pc' = [pc EXCEPT ![i] = "done"]
         /\ ret' = [ret EXCEPT ![i] =
                      <<IF r.ok THEN Ok(MergeRow(df[i], r.v.res)) ELSE r>>]
         /\ UNCHANGED reqs

\* The PARCEL request of task i comes back (or raises).
ParcelReturns(i) ==
    /\ pc[i] = "parcel"
    /\ LET g == requests_get(service, reqs[i][1])
       IN  /\ resps' = [resps EXCEPT ![i] = Append(@, g)]
           /\ Continue(i, geocoding_latlong_parcel(variant, g))
    /\ UNCHANGED <<variant, df, service, submitted, queue, calls, results, origin,
                   completed_count, progress_bar, status_text, phase, result_df>>

\* The ROAD request of task i comes back (or raises).
RoadReturns(i) ==
    /\ pc[i] = "road"
    /\ LET g == requests_get(service, reqs[i][2])
       IN  /\ resps' = [resps EXCEPT ![i] = Append(@, g)]
           /\ Continue(i, geocoding_latlong_road(variant, g))
    /\ UNCHANGED <<variant, df, service, submitted, queue, calls, results, origin,
                   completed_count, progress_bar, status_text, phase, result_df>>

\* as_completed yielding only the futures whose row was found.
YieldableFoundOnly ==
    {i \in Tasks : /\ pc[i] = "done"
                   /\ i \notin Range(origin)
                   /\ ret[i][1].ok
                   /\ Truthy(DictGet(ret[i][1].v, "found", None))}

\* The futures as_completed may yield next: done and not yet yielded.
Yieldable == {i \in Tasks : pc[i] = "done" /\ i \notin Range(origin)}

\* The outcome of future i merged onto the input row at the position the
\* result takes in results (index alignment with the input).
CollectedByPosition(i) ==
    LET out == ret[i][1].v
        res == [k \in (DOMAIN out) \ (DOMAIN df[i]) |-> out[k]]
    IN  WithTM(variant, MergeRow(df[Len(results) + 1], res))

\* The row the collector appends for future i.
Collected(i) == WithTM(variant, ret[i][1].v)

\* The count raised for found rows only.
CountFoundOnly(c, row_result) ==
    IF Truthy(DictGet(row_result, "found", None)) THEN c + 1 ELSE c

\* completed_count += 1, after the append of row_result.
CountAfter(c, row_result) == c + 1

\* One iteration of `for future in as_completed(future_to_row)`: future.result()
\* (which re-raises what the task raised, ending the run in the outer except),
\* the TM coordinates, the append and the progress update.  row_result is the
\* dict the future holds: TMX and TMY are written into that dict, and it is
\* that dict which is appended.  The bar is given completed_count / total (the
\* quotient is kept as its two terms) and the text f"처리 중... {completed_count}/{total}".
Collect(i) ==
    /\ phase = "run"
    /\ submitted = total
    /\ i \in Yieldable
    /\ IF ret[i][1].ok
       THEN /\ ret' = [ret EXCEPT ![i] = <<Ok(Collected(i))>>]
            /\ results' = Append(results, Collected(i))
            /\ origin' = Append(origin, i)
            /\ completed_count' = CountAfter(completed_count, Collected(i))
            /\ progress_bar' = Append(progress_bar,
                                      [t |-> "quotient", num |-> completed_count',
                                       den |-> total])
            /\ status_text' = Append(status_text,
                                     FStr("processing... {}/{}",
                                          <<PyInt(completed_count'), PyInt(total)>>))
            /\ UNCHANGED phase
       ELSE /\ phase' = "aborted"
            /\ UNCHANGED <<ret, results, origin, completed_count, progress_bar,
                           status_text>>
    /\ UNCHANGED <<variant, df, service, submitted, queue, pc, calls, reqs, resps,
                   result_df>>

\* as_completed ending one future early.
ExhaustedEarly == Len(origin) + 1 >= total

\* as_completed has yielded every future of future_to_row.
Exhausted == Len(origin) = total

\* as_completed is exhausted, the executor shuts down:
\* result_df = pd.DataFrame(results)
\* status_text.text("변환 완료!"), which takes the place of the last progress
\* text; the bar keeps its last value.
BuildTable ==
    /\ phase = "run"
    /\ submitted = total
    /\ Exhausted
    /\ result_df' = DataFrame(results)
    /\ status_text' = Append(status_text, FStr("conversion complete!", <<>>))
    /\ phase' = "done"
    /\ UNCHANGED <<variant, df, service, submitted, queue, pc, calls, reqs, resps, ret,
                   results, origin, completed_count, progress_bar>>

Next ==
    \/ Submit
    \/ \E i \in Tasks : Take(i)
    \/ \E i \in Tasks : Begin(i)
    \/ \E i \in Tasks : ParcelReturns(i)
    \/ \E i \in Tasks : RoadReturns(i)
    \/ \E i \in Tasks : Collect(i)
    \/ BuildTable

\* Dispatch and workers alone.  The collector only reads finished futures, so
\* it changes nothing about which tasks wait and which run.
NextPool ==
    \/ Submit
    \/ \E i \in Tasks : Take(i)
    \/ \E i \in Tasks : Begin(i)
    \/ \E i \in Tasks : ParcelReturns(i)

Spec == Init /\ [][Next]_vars

SpecResolve == InitResolve /\ [][Next]_vars

SpecFaults == InitFaults /\ [][Next]_vars

SpecPool == InitPool /\ [][NextPool]_vars

\* Task i leaves the wait for the answer to its PARCEL request (to the ROAD
\* request or to its end), or for the answer to its ROAD request: the steps
\* ParcelReturns(i) and RoadReturns(i), told by the task's position alone.
ParcelAnswered(i) ==
    /\ i \in Tasks
    /\ pc[i] = "parcel"
    /\ \E p \in {"road", "done"} : pc' = [pc EXCEPT ![i] = p]

RoadAnswered(i) ==
    /\ i \in Tasks
    /\ pc[i] = "road"
    /\ pc' = [pc EXCEPT ![i] = "done"]

\* Scheduling of a batch run.  The submitting thread runs on: it submits the
\* next row, takes the next finished future from as_completed and builds the
\* table when as_completed is exhausted.  A free worker thread takes the
\* oldest queued task, and a thread that holds a task is scheduled to run it.
\* Every request comes back or raises (requests.get is called with
\* timeout=10), so no task waits for an answer forever.
Fairness ==
    /\ WF_vars(Submit)
    /\ WF_vars(\E i \in Tasks : Take(i))
    /\ WF_vars(\E i \in Tasks : Begin(i))
    /\ \A i \in 1..MaxRows : WF_pc(ParcelAnswered(i))
    /\ \A i \in 1..MaxRows : WF_pc(RoadAnswered(i))
    /\ WF_vars(\E i \in Tasks : Collect(i))
    /\ WF_vars(BuildTable)

SpecLive == InitLive /\ [][Next]_vars /\ Fairness

-----------------------------------------------------------------------------
(* Vocabulary of the properties *)

\* The keys process_row and the collector add to a row.
ResultKeys == {"found", "level", "error", "lat", "lng", "TMX", "TMY"}

Done(i) == pc[i] = "done"

\* The dict the future of a finished task holds.
RowOfTask(i) == ret[i][1].v

\* The dict row as the future of task i holds it: as process_row returned it,
\* and with TMX and TMY once the collector has taken it, if it is found.
Held(i, row) == IF i \in Range(origin) THEN WithTM(variant, row) ELSE row

\* A cell with a value: the column exists and holds neither NaN nor None.
Present(row, c) == c \in DOMAIN row /\ ~IsNa(row[c])

\* A cell with no value: null, or a string of whitespace only.
NoValue(cell) ==
    \/ cell.t \in {"nan", "none"}
    \/ cell.t = "str" /\ \A j \in 1..Len(cell.s) : cell.s[j] \in Whitespace

\* The service-level status of an answer, <<status>>, or <<>> when the answer
\* has none (no response, an unparseable body, a missing field).
StatusOf(g) ==
    IF /\ g.io = "ok"
       /\ g.body.json
       /\ g.body.v.t = "dict"
       /\ "response" \in DOMAIN g.body.v.o
       /\ g.body.v.o["response"].t = "dict"
       /\ "status" \in DOMAIN g.body.v.o["response"].o
    THEN <<g.body.v.o["response"].o["status"]>>
    ELSE <<>>

\* The coordinates <<x, y>> of the point of an answer, or <<>>.
PointOf(g) ==
    IF /\ StatusOf(g) # <<>>
       /\ "result" \in DOMAIN g.body.v.o["response"].o
       /\ g.body.v.o["response"].o["result"].t = "dict"
       /\ "point" \in DOMAIN g.body.v.o["response"].o["result"].o
       /\ g.body.v.o["response"].o["result"].o["point"].t = "dict"
       /\ {"x", "y"} \subseteq DOMAIN g.body.v.o["response"].o["result"].o["point"].o
    THEN LET pt == g.body.v.o["response"].o["result"].o["point"].o
         IN  <<pt["x"], pt["y"]>>
    ELSE <<>>

\* A JSON value that denotes a number.
Numeric(c) == PyFloat(c).ok

\* An answer with service-level status OK and a point of two numbers.
OkWithPoint(g) ==
    /\ StatusOf(g) = <<Str(S_OK)>>
    /\ PointOf(g) # <<>>
    /\ Numeric(PointOf(g)[1])
    /\ Numeric(PointOf(g)[2])

\* An answer with this service-level status.
HasStatus(g, status) == StatusOf(g) = <<Str(status)>>

\* The answer of the service to a task's k-th request.
Answer(i, k) == resps[i][k]

\* row is an outcome row "found" with these coordinates.
IsResolved(row, x, y) ==
    /\ {"found", "lat", "lng", "level"} \subseteq DOMAIN row
    /\ row["found"] = PyBool(TRUE)
    /\ row["lat"] = PyFloat(y).v
    /\ row["lng"] = PyFloat(x).v
    /\ row["level"] = Str(<<"e", "x", "a", "c", "t">>)

\* row is an outcome row "not found" with a reason.
IsUnresolved(row) ==
    /\ {"found", "error"} \subseteq DOMAIN row
    /\ row["found"] = PyBool(FALSE)
    /\ row["error"].t = "fstr"

-----------------------------------------------------------------------------
(* C1 *)

\* C1: whatever the completion order, the rows collected so far come from
\* distinct input rows, each result row carrying the cells of its input row,
\* and once the result table is built it has exactly N rows, one for every
\* input row: no row is lost and none is duplicated.
C1_EveryRowExactlyOnce ==
    /\ Len(results) = Len(origin)
    /\ \A j, k \in 1..Len(origin) : j # k => origin[j] # origin[k]
    /\ \A k \in 1..Len(origin) :
         /\ origin[k] \in Tasks
         /\ \A c \in (DOMAIN df[origin[k]]) \ ResultKeys :
              c \in DOMAIN results[k] /\ results[k][c] = df[origin[k]][c]
    /\ phase = "done" =>
         /\ Len(result_df) = total
         /\ Len(results) = total
         /\ Range(origin) = Tasks

\* Two rows, collected in the order opposite to the input's, table built.
C1_Witness ==
    /\ phase = "done"
    /\ total = 2
    /\ origin = <<2, 1>>
    /\ Len(result_df) = 2

-----------------------------------------------------------------------------
(* C2 *)

\* C2: in every row of the final result table, found is true exactly when
\* lat, lng, TMX and TMY are all present and error is absent, and found is
\* false exactly when error is present and lat, lng, TMX, TMY are all absent,
\* whatever columns the input table carries.
C2_MutualExclusivity ==
    phase = "done" =>
      \A k \in 1..Len(result_df) :
        LET row == result_df[k]
            coords == {"lat", "lng", "TMX", "TMY"}
            found == Present(row, "found") /\ Truthy(row["found"])
        IN  /\ found <=> /\ \A c \in coords : Present(row, c)
                         /\ ~Present(row, "error")
            /\ ~found <=> /\ Present(row, "error")
                          /\ \A c \in coords : ~Present(row, c)

-----------------------------------------------------------------------------
(* C3 *)

\* Whether resolving this address string finds a point, by the answers the
\* service gives to it: at the first tier, or at the second after a first
\* tier that falls through.
FoundFor(q) ==
    LET g1 == service[<<S_PARCEL, q>>]
        g2 == service[<<S_ROAD, q>>]
    IN  IF g1.io = "ok" /\ g1.status_code = 200 /\ StatusOf(g1) # <<>>
        THEN IF HasStatus(g1, S_OK) THEN OkWithPoint(g1)
             ELSE IF HasStatus(g1, S_NOT_FOUND) \/ variant = "main" THEN OkWithPoint(g2)
             ELSE FALSE
        ELSE FALSE

-----------------------------------------------------------------------------
(* C4 *)

\* The first answer is a transport success whose service-level status is
\* neither OK nor NOT_FOUND.
ServiceErrorAtTier1(i) ==
    /\ Len(resps[i]) >= 1
    /\ Answer(i, 1).io = "ok"
    /\ Answer(i, 1).status_code = 200
    /\ StatusOf(Answer(i, 1)) # <<>>
    /\ ~HasStatus(Answer(i, 1), S_OK)
    /\ ~HasStatus(Answer(i, 1), S_NOT_FOUND)

\* C4: when the PARCEL answer is a transport success with a service-level
\* status other than OK and NOT_FOUND, the call ends after that one request,
\* without a ROAD request, in an Unresolved outcome that carries the status
\* and the message of the service.
C4_ServiceErrorIsTerminal ==
    \A i \in Tasks :
      ServiceErrorAtTier1(i) =>
        /\ Len(reqs[i]) = 1
        /\ Done(i)
        /\ IsUnresolved(RowOfTask(i))
        /\ RowOfTask(i)["error"].args =
             << StatusOf(Answer(i, 1))[1],
                DictGet(Answer(i, 1).body.v.o["response"].o, "text", Str(<<>>)) >>

-----------------------------------------------------------------------------
(* C5 *)

\* C5: a row whose address cell is null, empty or whitespace only ends with
\* found false and the "blank value" reason, with geocoding_latlong never
\* invoked and no request issued; for every other row geocoding_latlong is
\* invoked exactly once (from the moment process_row runs on the row; a task a
\* worker thread has taken and not begun has made no call).
C5_BlankRowsNeverResolved ==
    \A i \in Tasks :
      IF NoValue(df[i][addr_col])
      THEN /\ calls[i] = 0
           /\ reqs[i] = <<>>
           /\ Done(i) => /\ ret[i][1].ok
                         /\ RowOfTask(i)["found"] = PyBool(FALSE)
                         /\ RowOfTask(i)["error"] = FStr("blank value", <<>>)
      ELSE /\ calls[i] = (IF pc[i] \in {"new", "queued", "taken"} THEN 0 ELSE 1)
           /\ Done(i) => Len(reqs[i]) >= 1

\* A finished row of whitespace only, and (in another run) a finished row
\* with an address: the first without a call, the second with one.
C5_Witness ==
    \E i \in Tasks :
      /\ Done(i)
      /\ df[i][addr_col] = Str(<<"\t", " ">>)
      /\ calls[i] = 0
      /\ RowOfTask(i)["error"] = FStr("blank value", <<>>)

-----------------------------------------------------------------------------
(* C6 *)

\* C6: when the PARCEL answer is a transport success with status OK and a
\* point {x, y} of numbers, the call ends after that one request, without a
\* ROAD request, Resolved with lat = y, lng = x and level exact; so the point
\* {x: "127.0", y: "37.5"} gives lat 37.5 and lng 127.
C6_Tier1Resolved ==
    \A i \in Tasks :
      ( /\ Len(resps[i]) >= 1
        /\ Answer(i, 1).io = "ok"
        /\ Answer(i, 1).status_code = 200
        /\ OkWithPoint(Answer(i, 1)) ) =>
        LET pt == PointOf(Answer(i, 1))
        IN  /\ Len(reqs[i]) = 1
            /\ reqs[i][1].type = S_PARCEL
            /\ Done(i)
            /\ ret[i][1].ok
            /\ IsResolved(RowOfTask(i), pt[1], pt[2])
            /\ pt = <<C_127_0, C_37_5>> =>
                 /\ RowOfTask(i)["lat"] = Float(375, 1)
                 /\ RowOfTask(i)["lng"] = Float(127, 0)

\* A finished call whose single request was answered OK with the point
\* {x: "127.0", y: "37.5"}.
C6_Witness ==
    \E i \in Tasks :
      /\ Done(i)
      /\ Len(resps[i]) = 1
      /\ Answer(i, 1).io = "ok"
      /\ Answer(i, 1).status_code = 200
      /\ PointOf(Answer(i, 1)) = <<C_127_0, C_37_5>>
      /\ RowOfTask(i)["lat"] = Float(375, 1)

-----------------------------------------------------------------------------
(* C7 *)

\* C7: when the service answers the address NOT_FOUND in PARCEL mode and OK
\* with a point {x, y} of numbers in ROAD mode, the requests issued are PARCEL
\* then ROAD, both with the row's address string, no third one, and the call
\* ends Resolved with lat = y, lng = x of the ROAD answer.
C7_FallbackResolved ==
    \A i \in Tasks :
      LET q == PyStr(df[i][addr_col])
          g1 == service[<<S_PARCEL, q>>]
          g2 == service[<<S_ROAD, q>>]
      IN  ( /\ ~NoValue(df[i][addr_col])
            /\ g1.io = "ok" /\ g1.status_code = 200 /\ HasStatus(g1, S_NOT_FOUND)
            /\ OkWithPoint(g2) ) =>
            /\ Len(reqs[i]) <= 2
            /\ \A n \in 1..Len(reqs[i]) :
                 /\ reqs[i][n].type = (IF n = 1 THEN S_PARCEL ELSE S_ROAD)
                 /\ reqs[i][n].address = q
            /\ Done(i) =>
                 /\ Len(reqs[i]) = 2
                 /\ resps[i] = <<g1, g2>>
                 /\ ret[i][1].ok
                 /\ IsResolved(RowOfTask(i), PointOf(g2)[1], PointOf(g2)[2])

\* A finished call with a padded address, answered NOT_FOUND and then OK with
\* the point {x: "127.1", y: " 37.60"}.
C7_Witness ==
    \E i \in Tasks :
      /\ Done(i)
      /\ df[i][addr_col] = A_padded
      /\ Len(resps[i]) = 2
      /\ HasStatus(Answer(i, 1), S_NOT_FOUND)
      /\ PointOf(Answer(i, 2)) = <<C_127_1, C_37_6>>
      /\ RowOfTask(i)["lat"] = Float(376, 1)
      /\ RowOfTask(i)["lng"] = Float(1271, 1)

-----------------------------------------------------------------------------
(* C8 *)

\* An answer the code cannot read as far as it looks: no parseable body, no
\* response or status field, or status OK without a point of two numbers.
Unreadable(g) ==
    \/ StatusOf(g) = <<>>
    \/ HasStatus(g, S_OK) /\ ~OkWithPoint(g)

\* The last answer of a finished call broke the call: the request raised
\* (timeout, connection failure), or the answer was read (at the first tier
\* only after a transport success) and is unreadable.
BrokenCall(i) ==
    /\ Len(resps[i]) >= 1
    /\ LET n == Len(resps[i])
           g == Answer(i, n)
       IN  \/ g.io = "raise"
           \/ g.io = "ok" /\ (n = 2 \/ g.status_code = 200) /\ Unreadable(g)

\* C8: no behaviour of the service at either tier makes a task raise: every
\* finished future holds a row, a broken call gives the Unresolved row with
\* the "system error" reason naming the exception, the run is never aborted,
\* and the rows of the other tasks are collected, whether they finish before
\* the broken call has begun or after it has ended, and reach the result
\* table.
C8_FailuresNeverPropagate ==
    /\ phase # "aborted"
    /\ \A i \in Tasks :
         Done(i) =>
           /\ ret[i][1].ok
           /\ BrokenCall(i) =>
                /\ IsUnresolved(RowOfTask(i))
                /\ RowOfTask(i)["error"].lit = "system error: {}"
                /\ Len(RowOfTask(i)["error"].args) = 1
    /\ (submitted = total /\ phase = "run") =>
         \A i \in Tasks : Done(i) /\ i \notin Range(origin) => ENABLED Collect(i)
    /\ phase = "done" =>
         /\ Len(result_df) = total
         /\ \E k \in 1..Len(result_df) :
              origin[k] = 2 /\ result_df[k]["found"] = PyBool(TRUE)

\* The table is built from two rows: the second row was found and was
\* collected first, the first row's call broke at the second tier on
\* coordinates that are no numbers.
C8_Witness ==
    /\ phase = "done"
    /\ origin = <<2, 1>>
    /\ Len(resps[1]) = 2
    /\ BrokenCall(1)
    /\ PointOf(Answer(1, 2)) = <<C_bad, C_37_5>>
    /\ result_df[1]["found"] = PyBool(TRUE)
    /\ result_df[2]["error"].lit = "system error: {}"

-----------------------------------------------------------------------------
(* C9 *)

\* Tasks a worker thread has taken from the work queue.
Started == {i \in Tasks : pc[i] \in {"taken", "parcel", "road", "done"}}

\* C9: at most max_workers (10) tasks are in flight in any state, a task a
\* thread has taken and not begun counted among them; the tasks are taken in
\* the order of submission and the others wait in the queue, without a call
\* or a request; and a task beyond the first ten is taken only after enough
\* earlier ones have finished: when task i > 10 has been taken, at least
\* i - 10 other tasks are done.
C9_AtMostTenInFlight ==
    /\ Cardinality(Running) <= max_workers
    /\ Started = 1..Cardinality(Started)
    /\ queue = [k \in 1..(submitted - Cardinality(Started)) |-> Cardinality(Started) + k]
    /\ \A i \in Tasks \ Started : calls[i] = 0 /\ reqs[i] = <<>> /\ ret[i] = <<>>
    /\ \A i \in Started :
         i > max_workers =>
           Cardinality({j \in Tasks \ {i} : Done(j)}) >= i - max_workers

\* Ten tasks in flight after one has finished: the eleventh is among them and
\* has issued its request, while an earlier one has not begun.
C9_Witness ==
    /\ total > max_workers
    /\ Cardinality(Running) = max_workers
    /\ pc[max_workers + 1] = "parcel"
    /\ \E j \in 1..max_workers : pc[j] = "taken"
    /\ \E j \in Tasks : Done(j)

-----------------------------------------------------------------------------
(* C10 *)

\* C10: the progress completed_count/total starts at 0 (the bar shows 0, no
\* text is shown); each iteration of the collector publishes once, the k-th
\* showing k of total on the bar and in the text, so each publication is one
\* more than the one before and none exceeds total; completed_count is always
\* the number of rows appended to results and the number of publications, and
\* it is total when the batch has finished, where the text of the last
\* publication gives way to the closing text.
C10_ProgressCountsCollectedRows ==
    /\ completed_count = Len(results)
    /\ completed_count <= total
    /\ Len(progress_bar) = completed_count + 1
    /\ progress_bar[1] = PyInt(0)
    /\ Len(status_text) = completed_count + (IF phase = "done" THEN 1 ELSE 0)
    /\ \A k \in 1..completed_count :
         /\ progress_bar[k + 1] = [t |-> "quotient", num |-> k, den |-> total]
         /\ status_text[k] = FStr("processing... {}/{}", <<PyInt(k), PyInt(total)>>)
    /\ (\A i \in Tasks : ~Done(i)) => completed_count = 0
    /\ phase = "done" =>
         /\ completed_count = total
         /\ status_text[total + 1] = FStr("conversion complete!", <<>>)

\* A finished batch of two rows: the bar showed 0, 1/2 and 2/2, the text 1/2,
\* 2/2 and then the closing text.
C10_Witness ==
    /\ phase = "done"
    /\ total = 2
    /\ progress_bar = <<PyInt(0), [t |-> "quotient", num |-> 1, den |-> 2],
                        [t |-> "quotient", num |-> 2, den |-> 2]>>
    /\ status_text = <<FStr("processing... {}/{}", <<PyInt(1), PyInt(2)>>),
                       FStr("processing... {}/{}", <<PyInt(2), PyInt(2)>>),
                       FStr("conversion complete!", <<>>)>>

-----------------------------------------------------------------------------
(* C11 *)

\* The texts of the failure reasons, by kind.
TransportErrorTexts == {"HTTP error: {}", "HTTP connect error ({})"}
NoMatchTexts == {"no result (check the V-World response)", "address unknown (no result)"}

\* error is the service-error reason carrying the status and the message
\* (the text field, empty when the answer has none) of the answer g.
IsServiceErrorOf(error, g) ==
    /\ error.lit = "API error: {} ({})"
    /\ error.args = << StatusOf(g)[1],
                       DictGet(g.body.v.o["response"].o, "text", Str(<<>>)) >>

\* error is a system-error reason with one description.
IsSystemError(error) ==
    /\ error.lit = "system error: {}"
    /\ Len(error.args) = 1

\* error is the failure reason of task i, by the row's address cell and the
\* answers the service gave to the task's requests: blank value; system error
\* for a request that raised or an answer that cannot be read; transport error
\* with the code of a first answer that is no transport success; service error
\* with status and message for a first answer with a status other than OK and
\* NOT_FOUND; after a first NOT_FOUND, no match for a second NOT_FOUND, and no
\* match or the service error for any other status of the second answer.
IsReasonOf(error, i) ==
    LET g1 == Answer(i, 1)
        g2 == Answer(i, 2)
    IN  IF NoValue(df[i][addr_col]) THEN error = FStr("blank value", <<>>)
        ELSE IF g1.io = "raise" THEN IsSystemError(error)
        ELSE IF g1.status_code # 200
             THEN error.lit \in TransportErrorTexts /\ error.args = <<PyInt(g1.status_code)>>
        ELSE IF ServiceErrorAtTier1(i) THEN IsServiceErrorOf(error, g1)
        ELSE IF Unreadable(g1) THEN IsSystemError(error)
        ELSE IF g2.io = "raise" \/ Unreadable(g2) THEN IsSystemError(error)
        ELSE IF HasStatus(g2, S_NOT_FOUND) THEN error.lit \in NoMatchTexts
        ELSE error.lit \in NoMatchTexts \/ IsServiceErrorOf(error, g2)

\* C11: in the final result table, the error field of every row with found
\* false is exactly the failure reason produced for that row (blank value,
\* transport error with its code, service error with the status and message
\* of the service, no match, system error); no failure the service reported
\* is dropped or replaced by another reason.
C11_FailureReasonPreserved ==
    phase = "done" =>
      \A k \in 1..Len(result_df) :
        LET row == result_df[k]
        IN  row["found"] = PyBool(FALSE) =>
              /\ "error" \in DOMAIN row
              /\ row["error"].t = "fstr"
              /\ IsReasonOf(row["error"], origin[k])

-----------------------------------------------------------------------------
(* C13 *)

\* C13: when the PARCEL request comes back with a transport status code other
\* than 200, the call ends after that one request, without a ROAD request, in
\* an Unresolved outcome whose reason is the transport error with that code,
\* whatever the body is (a body that cannot be parsed included).
C13_TransportErrorIsTerminal ==
    \A i \in Tasks :
      ( /\ Len(resps[i]) >= 1
        /\ Answer(i, 1).io = "ok"
        /\ Answer(i, 1).status_code # 200 ) =>
        /\ Len(reqs[i]) = 1
        /\ reqs[i][1].type = S_PARCEL
        /\ Len(resps[i]) = 1
        /\ Done(i)
        /\ ret[i][1].ok
        /\ IsUnresolved(RowOfTask(i))
        /\ RowOfTask(i)["error"].lit \in TransportErrorTexts
        /\ RowOfTask(i)["error"].args = <<PyInt(Answer(i, 1).status_code)>>
        /\ DOMAIN RowOfTask(i) = (DOMAIN df[i]) \cup {"found", "error"}

\* A finished call whose PARCEL request was answered with code 500 and a body
\* that is no JSON: one request, the reason carries 500.
C13_Witness ==
    \E i \in Tasks :
      /\ Done(i)
      /\ Len(resps[i]) = 1
      /\ Len(reqs[i]) = 1
      /\ Answer(i, 1).io = "ok"
      /\ Answer(i, 1).status_code = 500
      /\ ~Answer(i, 1).body.json
      /\ RowOfTask(i)["error"].args = <<PyInt(500)>>

-----------------------------------------------------------------------------
(* C14 *)

\* Tier 1 ended the call: the PARCEL answer is a transport error, or a
\* transport success that is Resolved (status OK with a point of numbers) or
\* carries a service-level status other than OK and NOT_FOUND.
Tier1Terminal(i) ==
    /\ Len(resps[i]) >= 1
    /\ Answer(i, 1).io = "ok"
    /\ \/ Answer(i, 1).status_code # 200
       \/ OkWithPoint(Answer(i, 1))
       \/ ServiceErrorAtTier1(i)

\* C14: whatever the service answers, one call of geocoding_latlong issues at
\* most two requests, the first PARCEL and the second ROAD, the ROAD request
\* only once the PARCEL request of the same call has come back; no tier is
\* repeated and there is no third request; and exactly one request is issued
\* whenever Tier 1 ends Resolved or in a terminal error (a transport error, or
\* a service status other than OK and NOT_FOUND).
C14_RequestSequence ==
    \A i \in Tasks :
      /\ calls[i] <= 1
      /\ Len(reqs[i]) <= 2
      /\ Len(resps[i]) <= Len(reqs[i])
      /\ \A n \in 1..Len(reqs[i]) :
           reqs[i][n].type = (IF n = 1 THEN S_PARCEL ELSE S_ROAD)
      /\ Len(reqs[i]) = 2 => Len(resps[i]) >= 1
      /\ Tier1Terminal(i) => Len(reqs[i]) = 1

-----------------------------------------------------------------------------
(* C15 *)

\* C15: when the ROAD request was issued and its answer carries the status
\* NOT_FOUND, the call ends Unresolved with the no-match reason; when it
\* carries any other status than OK, the call ends Unresolved with the
\* no-match reason or with the service error of that status and message; and
\* a call that issued the ROAD request ends Resolved only if the status of the
\* ROAD answer is OK.
C15_Tier2Outcome ==
    \A i \in Tasks :
      (Done(i) /\ Len(resps[i]) = 2) =>
        LET g2 == Answer(i, 2)
            row == RowOfTask(i)
        IN  /\ ret[i][1].ok
            /\ (StatusOf(g2) # <<>> /\ ~HasStatus(g2, S_OK)) =>
                 /\ IsUnresolved(row)
                 /\ IF HasStatus(g2, S_NOT_FOUND)
                    THEN row["error"].lit \in NoMatchTexts
                    ELSE row["error"].lit \in NoMatchTexts \/ IsServiceErrorOf(row["error"], g2)
            /\ row["found"] = PyBool(TRUE) => HasStatus(g2, S_OK)

\* Two finished calls that reached Tier 2: the ROAD answer NOT_FOUND although
\* it carries a point, ending in the no-match reason; and (checkpoint variant)
\* the ROAD answer INVALID_KEY with the message "bad", ending in the service
\* error.  The witness is the first of them.
C15_Witness ==
    \E i \in Tasks :
      /\ Done(i)
      /\ Len(resps[i]) = 2
      /\ HasStatus(Answer(i, 2), S_NOT_FOUND)
      /\ PointOf(Answer(i, 2)) = <<C_127_0, C_37_5>>
      /\ RowOfTask(i)["found"] = PyBool(FALSE)
      /\ RowOfTask(i)["error"].lit \in NoMatchTexts

-----------------------------------------------------------------------------
(* C16 *)

\* The batch run has ended: every task is done, none is queued or running,
\* every result is collected and the result table is built from them.
Terminated ==
    /\ phase = "done"
    /\ submitted = total
    /\ \A i \in Tasks : Done(i)
    /\ queue = <<>>
    /\ Running = {}
    /\ Range(origin) = Tasks
    /\ Len(results) = total
    /\ Len(result_df) = total

\* C16: if every request comes back or times out and the threads are
\* scheduled fairly, every batch run eventually ends with all N tasks done,
\* all N results collected and the pool drained: the collector never waits
\* forever and no submitted task is cancelled or abandoned.
C16_BatchTerminates == <>Terminated

\* A finished run of two rows in which one request timed out and another
\* call went through both tiers.
C16_Witness ==
    /\ Terminated
    /\ total = 2
    /\ \E i \in Tasks : Len(resps[i]) = 1 /\ Answer(i, 1).io = "raise"
    /\ \E i \in Tasks : Len(resps[i]) = 2

-----------------------------------------------------------------------------
(* C17 *)

\* The state of task i: its position, its requests and answers, its future.
TaskState(i) == <<pc[i], calls[i], reqs[i], resps[i], ret[i]>>

\* A step of a worker thread on task i: the thread takes the task from the
\* queue, begins process_row, or goes on from a request.
WorkerStep(i) == pc[i] \in {"queued", "taken", "parcel", "road"} /\ pc'[i] # pc[i]

\* C17: tasks never write shared state.  A step that changes results,
\* completed_count or the value of the progress bar is an iteration of the
\* collector's loop, which appends one row, adds one to the count and
\* publishes once on the bar and in the text; the text changes besides only
\* when the submitting thread closes the run; a worker's step on a task
\* leaves results, completed_count, the progress, the input table and every
\* other task's state unchanged, and what a task returns is process_row of
\* the address column, the key and its own row; the dict a finished task
\* returned is written again only by the collector (TMX and TMY).
C17_OnlyCollectorWritesShared ==
    [][ /\ <<results, origin, completed_count, progress_bar>>' #
             <<results, origin, completed_count, progress_bar>> =>
             /\ \E i \in Tasks : Collect(i)
             /\ Len(results') = Len(results) + 1
             /\ SubSeq(results', 1, Len(results)) = results
             /\ completed_count' = completed_count + 1
             /\ Len(progress_bar') = Len(progress_bar) + 1
             /\ Len(status_text') = Len(status_text) + 1
        /\ status_text' # status_text => (\E i \in Tasks : Collect(i)) \/ BuildTable
        /\ \A i \in Tasks :
             WorkerStep(i) =>
               /\ UNCHANGED <<df, results, origin, completed_count, progress_bar,
                              status_text, result_df>>
               /\ \A j \in Tasks \ {i} : TaskState(j)' = TaskState(j)
               /\ pc'[i] = "done" =>
                    ret'[i] = <<Ok(process_row(variant, service, df[i], addr_col, api_key).row_dict)>>
        /\ \A i \in Tasks :
             (ret'[i] # ret[i] /\ ~WorkerStep(i)) => Collect(i)
      ]_vars

\* The collector has appended the second row's result while the first row's
\* task, taken by a worker thread before it, has not begun.
C17_Witness ==
    /\ origin = <<2>>
    /\ completed_count = 1
    /\ pc[1] = "taken"
    /\ calls[1] = 0

-----------------------------------------------------------------------------
(* C18 *)

\* row carries every column of the input row of task i with its value.
Carries(row, i) ==
    \A c \in DOMAIN df[i] : c \in DOMAIN row /\ row[c] = df[i][c]

\* C18: every result row contains every original column of its input row
\* with its original value, whatever the names of the input columns are (a
\* column named found, level, error, lat, lng, TMX or TMY included): the row a
\* task returns, the row appended to results and the row of the result table.
C18_InputCarriedThrough ==
    /\ \A i \in Tasks : (Done(i) /\ ret[i][1].ok) => Carries(RowOfTask(i), i)
    /\ \A k \in 1..Len(results) : Carries(results[k], origin[k])
    /\ phase = "done" => \A k \in 1..Len(result_df) : Carries(result_df[k], origin[k])

-----------------------------------------------------------------------------
(* C19 *)

\* The common path for the address string q: the service answers it in
\* PARCEL mode with HTTP 200 and status OK or NOT_FOUND, and in ROAD mode with
\* status OK or NOT_FOUND.
CommonPath(q) ==
    LET g1 == service[<<S_PARCEL, q>>]
        g2 == service[<<S_ROAD, q>>]
    IN  /\ g1.io = "ok"
        /\ g1.status_code = 200
        /\ HasStatus(g1, S_OK) \/ HasStatus(g1, S_NOT_FOUND)
        /\ g2.io = "ok"
        /\ HasStatus(g2, S_OK) \/ HasStatus(g2, S_NOT_FOUND)

\* The lookup modes and addresses of a sequence of requests.
TiersOf(requests) ==
    [n \in 1..Len(requests) |-> <<requests[n].type, requests[n].address>>]

\* C19: on the common path the two variants are outcome-equivalent.  For
\* every row with an address and every service on the common path,
\* src/geocoding.py and the checkpoint variant issue the same sequence of
\* requests (same tiers, same order, same number, same address) and return
\* the same found flag and the same lat and lng; and what the variant that
\* runs does (its requests, the row of its future) is what process_row of
\* that variant gives (the row with TMX and TMY once it is collected).
C19_VariantsEquivalent ==
    \A i \in Tasks :
      LET addr == df[i][addr_col]
          main == process_row("main", service, df[i], addr_col, api_key)
          checkpoint == process_row("checkpoint", service, df[i], addr_col, api_key)
          own == process_row(variant, service, df[i], addr_col, api_key)
      IN  (~NoValue(addr) /\ CommonPath(PyStr(addr))) =>
            /\ TiersOf(main.requests) = TiersOf(checkpoint.requests)
            /\ main.row_dict["found"] = checkpoint.row_dict["found"]
            /\ DictGet(main.row_dict, "lat", None) = DictGet(checkpoint.row_dict, "lat", None)
            /\ DictGet(main.row_dict, "lng", None) = DictGet(checkpoint.row_dict, "lng", None)
            /\ Done(i) => /\ reqs[i] = own.requests
                          /\ ret[i] = <<Ok(Held(i, own.row_dict))>>

\* A finished call of the checkpoint variant on the common path: NOT_FOUND
\* at Tier 1, then found at Tier 2 with the point {x: "127.1", y: " 37.60"}.
C19_Witness ==
    \E i \in Tasks :
      /\ variant = "checkpoint"
      /\ Done(i)
      /\ ~NoValue(df[i][addr_col])
      /\ CommonPath(PyStr(df[i][addr_col]))
      /\ Len(reqs[i]) = 2
      /\ RowOfTask(i)["found"] = PyBool(TRUE)
      /\ RowOfTask(i)["lat"] = Float(376, 1)

-----------------------------------------------------------------------------
(* C20 *)

\* C20: the transport status code of the ROAD answer is never examined.  For
\* a finished call that got a ROAD answer, whatever its HTTP status code, the
\* outcome is the one the same body gives with code 200; it is Resolved
\* exactly when the body is read without an exception as status OK with a
\* point of numbers, and Unresolved otherwise, never with a transport-error
\* reason.  A transport-error reason comes from Tier 1 only: the call that
\* ends with one issued a single request, whose answer had a code other than
\* 200.
C20_Tier2CodeNotExamined ==
    \A i \in Tasks :
      (Done(i) /\ ret[i][1].ok) =>
        LET row == RowOfTask(i)
        IN  /\ (Len(resps[i]) = 2 /\ Answer(i, 2).io = "ok") =>
                 LET g2 == Answer(i, 2)
                     as200 == geocoding_latlong_road(variant, Http(200, g2.body))
                 IN  /\ row = Held(i, MergeRow(df[i], as200.v.res))
                     /\ row["found"] = PyBool(OkWithPoint(g2))
                     /\ IF OkWithPoint(g2)
                        THEN IsResolved(row, PointOf(g2)[1], PointOf(g2)[2])
                        ELSE IsUnresolved(row)
            /\ (IsUnresolved(row) /\ row["error"].lit \in TransportErrorTexts) =>
                 /\ Len(reqs[i]) = 1
                 /\ Len(resps[i]) = 1
                 /\ Answer(i, 1).io = "ok"
                 /\ Answer(i, 1).status_code # 200

\* A finished call whose ROAD answer came with HTTP 500 and a body of status
\* OK with the point {x: "127.0", y: "37.5"}: the row is found.
C20_Witness ==
    \E i \in Tasks :
      /\ Done(i)
      /\ Len(resps[i]) = 2
      /\ Answer(i, 2).io = "ok"
      /\ Answer(i, 2).status_code = 500
      /\ PointOf(Answer(i, 2)) = <<C_127_0, C_37_5>>
      /\ HasStatus(Answer(i, 2), S_OK)
      /\ RowOfTask(i)["found"] = PyBool(TRUE)
      /\ RowOfTask(i)["lat"] = Float(375, 1)

=============================================================================
